---- MODULE Spec2Model ----
(***************************************************************************)
(* A model of the chiptune composer: the project data model                *)
(* (modules/dataModel.js), the MIDI grouping step (modules/midiImport.js), *)
(* the editor operations of main.js / timeline.js / drumEditor.js, the     *)
(* undo history, and the transport of modules/audioEngine.js.              *)
(*                                                                         *)
(* Units.  Beats are counted in 1/1000 beat, levels (velocity, volume,     *)
(* pan) in 1/100, audio-clock time in microseconds, so that 60/bpm seconds *)
(* per beat is the integer 60000 \div bpm microseconds per 1/1000 beat for *)
(* every bpm that divides 60000.  Identifiers (createId) are naturals,     *)
(* 0 standing for "no usable id".  NaN stands for every value that         *)
(* Number.isFinite rejects (undefined, null, NaN, a string, ...).          *)
(***************************************************************************)
EXTENDS Integers, Sequences, FiniteSets, TLC

VARIABLES
    \* ---- pure data-model runs (SpecModel) ----
    pc,          \* which function run this behaviour is, and how far it got
    raw,         \* the value handed to normalizeProject
    rawNow,      \* the object raw, as the calls so far have left it
    norm1,       \* normalizeProject(raw)
    norm2,       \* normalizeProject(JSON round trip of norm1)
    blk,         \* the block handed to ensureDrumPattern
    rowsArg,     \* the rows argument handed to ensureDrumPattern
    ens1,        \* first ensureDrumPattern call
    ens2,        \* second ensureDrumPattern call on the result of the first
    midi,        \* the parsed MIDI handed to buildProjectFromMidi
    imported,    \* buildProjectFromMidi(midi)
    sched,       \* the arguments of scheduleProject: the project object as
                 \* the calls so far have left it, startTime, ignoreMuteSolo
    passes,      \* what each scheduleProject call so far has scheduled
    bytes,       \* the bytes of the file handed to importMidiFile
    fileImport,  \* what importMidiFile(file) came to: the error thrown, or
                 \* the value of parseMidi and the project built from it
    decoded,     \* readVarInt(bytes, offset) and the offset it was read at
    endBeat,     \* getProjectEndBeat(raw)
    synthNote,   \* the arguments of a scheduleSynthNote call and what it did
    \* ---- the editor session of main.js (Spec) ----
    heap,        \* address -> the project object graph that lives there
    project,     \* main.js `project`: the address of the live project
    stack,       \* HistoryManager.stack: addresses of the snapshots
    index,       \* HistoryManager.index (0-based)
    stored,      \* per snapshot, its content when it was stored (observer)
    nextId,      \* base of the next createId() draws
    activeTrackId,   \* main.js activeTrackId (0: none)
    activeBlockId,   \* main.js activeBlockId (0: none)
    pendingConfirm,  \* main.js pendingConfirm: the track the open dialog is
                     \* about to delete (0: no dialog)
    opCount,     \* editor operations performed so far
    pointer,     \* "up", "down" while a hit is dragged or resized, "none"
                 \* when no editor session runs
    lastOp,      \* the last editor operation and what it touched (observer)
    \* ---- the transport of audioEngine.js (SpecEngine) ----
    song,        \* the project handed to playProject / previewBlock
    audio,       \* whether the browser has an AudioContext class
    clock,       \* context.currentTime
    engine,      \* the fields of the AudioEngine object
    timers,      \* every window.setTimeout re-schedule timer armed so far
    buses,       \* every bus created so far: "live" or "released"
    played,      \* every scheduled iteration so far (observer)
    ctx,         \* the AudioContext: its state, the state a new one starts
                 \* in on this browser, and whether a resume() is under way
    \* ---- the transport buttons of main.js (SpecTransport) ----
    ui           \* isPlaying, loopEnabled, previewEnabled, the open editor,
                 \* playbackStopTimer

modelVars == <<pc, raw, rawNow, norm1, norm2, blk, rowsArg, ens1, ens2, midi,
               imported, sched, passes, bytes, fileImport, decoded, endBeat,
               synthNote>>

editorVars == <<heap, project, stack, index, stored, nextId, activeTrackId,
                activeBlockId, pendingConfirm, opCount, pointer, lastOp>>

engineVars == <<song, audio, clock, engine, timers, buses, played, ctx, ui>>

vars == <<modelVars, editorVars, engineVars>>

-----------------------------------------------------------------------------
(* Numbers *)

NaN == -999999

Infinity == 0 - NaN

\* Number.isFinite(x) of a number or of something that is none (NaN).
IsFinite(x) == x \notin {NaN, Infinity, 0 - Infinity}

Max(a, b) == IF a >= b THEN a ELSE b

Min(a, b) == IF a <= b THEN a ELSE b

\* A clamp that has no upper bound.
clampFromBelow(value, lo, hi) == Max(value, lo)

clamp(value, lo, hi) == Min(Max(value, lo), hi)

SeqToSet(s) == {s[i] : i \in 1..Len(s)}

RECURSIVE Flatten(_)
Flatten(ss) == IF ss = <<>> THEN <<>> ELSE Head(ss) \o Flatten(Tail(ss))

-----------------------------------------------------------------------------
(* Constants of dataModel.js *)

DRUM_KITS ==
    [NES   |-> <<"kick", "snare", "hat", "perc">>,
     Atari |-> <<"kick", "snare", "hat", "noise">>,
     C64   |-> <<"kick", "snare", "hat", "clap", "tom">>,
     Sega  |-> <<"kick", "snare", "hat", "fm-tom", "cowbell">>]

DEFAULT_DRUM_ROWS == DRUM_KITS.NES

CONSOLE_WAVES ==
    [Basics       |-> <<"sine", "triangle", "square", "saw", "pulse", "pwm",
                        "supersaw", "noise", "noise-pink", "noise-brown">>,
     Complex      |-> <<"sub-sine", "bitcrush", "ring-mod", "am", "fold", "drive",
                        "hard-sync", "phaser", "chorus">>,
     NES          |-> <<"pulse12", "pulse25", "pulse50">>,
     Famicom      |-> <<"pulse12", "pulse25", "pulse50", "triangle", "noise">>,
     GameBoy      |-> <<"pulse12", "pulse25", "pulse50", "wave", "noise">>,
     TurboGrafx16 |-> <<"wave1", "wave2", "wave3">>,
     SNES         |-> <<"wave1", "wave2", "noise">>,
     Atari        |-> <<"square", "noise">>,
     C64          |-> <<"triangle", "saw", "pulse">>,
     Sega         |-> <<"fm">>]

MAX_TRACKS == 16

MIN_TRACKS == 5

DEFAULT_TRACKS ==
    << [type |-> "synth", console |-> "NES",   waveform |-> "pulse25"],
       [type |-> "synth", console |-> "C64",   waveform |-> "triangle"],
       [type |-> "synth", console |-> "Atari", waveform |-> "square"],
       [type |-> "synth", console |-> "Sega",  waveform |-> "fm"],
       [type |-> "drums", console |-> "NES",   waveform |-> "noise"] >>

\* Every drum-voice name of the kits, plus one name no kit has ("bogus": a
\* stale or foreign name in loaded data).
DrumNames ==
    UNION {SeqToSet(DRUM_KITS[c]) : c \in DOMAIN DRUM_KITS} \cup {"bogus"}

-----------------------------------------------------------------------------
(* Fresh identifiers.  createId() draws a random string; the model hands   *)
(* out naturals that depend on the call's position under a base that the   *)
(* caller advances, so two calls never return the same id.                 *)

IdStride == 100

TrackIdStride == IdStride * IdStride

CallIdStride == TrackIdStride * (MAX_TRACKS + 1)

createId(idBase, offset) == idBase + offset

-----------------------------------------------------------------------------
(* Shapes of the values.  A pattern is what block.pattern holds:           *)
(*   kind "falsy"  : undefined, null, 0, "", false                        *)
(*   kind "prim"   : a truthy primitive (a number, a string, true)         *)
(*   kind "object" : a plain object                                        *)
(*   kind "array"  : an array; createBlock makes one, and ensureDrumPattern *)
(*                   then hangs events/rows/volumes on it as properties    *)
(* The property fields are read only for the kinds "object" and "array".   *)

AbsentEvents == [t |-> "absent", items |-> <<>>]

AbsentGrid == [t |-> "absent", rows |-> <<>>]

AbsentRows == [t |-> "absent", items |-> <<>>]

NoVolumeMap == [d \in DrumNames |-> NaN]

AbsentVolumes == [t |-> "absent", map |-> NoVolumeMap]

PatternOf(kind) ==
    [kind |-> kind, events |-> AbsentEvents, grid |-> AbsentGrid,
     rows |-> AbsentRows, steps |-> NaN, volumes |-> AbsentVolumes]

EmptyArray == PatternOf("array")

EmptyObject == PatternOf("object")

\* The rows argument of ensureDrumPattern: an array of names, or something
\* that is no array (main.js passes the number 16 in that position).
ArrayArg(items) == [isArray |-> TRUE, items |-> items]

NumberArg == [isArray |-> FALSE, items |-> <<>>]

\* seq[i] of a JS array: "" stands for undefined (index past the end).
At(items, i) == IF i \in 1..Len(items) THEN items[i] ELSE ""

-----------------------------------------------------------------------------
(* Factories *)

createBlock(id, startBeat, length) ==
    [id |-> id, startBeat |-> startBeat, length |-> length,
     notes |-> <<>>, pattern |-> EmptyArray]

\* trackIndex is 0-based as in the source; requestedType is "drums", "synth" or
\* "" (no options.type).
createTrack(id, trackIndex, requestedType) ==
    LET template == IF trackIndex + 1 \in 1..Len(DEFAULT_TRACKS)
                    THEN DEFAULT_TRACKS[trackIndex + 1] ELSE DEFAULT_TRACKS[1]
        baseTemplate == IF requestedType = "drums" THEN DEFAULT_TRACKS[5]
                        ELSE IF requestedType = "synth" THEN DEFAULT_TRACKS[1]
                        ELSE template
    IN [id |-> id, type |-> baseTemplate.type, console |-> baseTemplate.console,
        waveform |-> baseTemplate.waveform, volume |-> 80, pan |-> 0,
        octave |-> 0, mute |-> FALSE, solo |-> FALSE, blocks |-> <<>>]

createDefaultProject(idBase) ==
    [name |-> "Untitled Project", bpm |-> 120,
     tracks |-> [i \in 1..5 |-> createTrack(createId(idBase, i), i - 1, "")]]

getDrumRowsForConsole(consoleName) ==
    IF consoleName \in DOMAIN DRUM_KITS THEN DRUM_KITS[consoleName]
    ELSE DEFAULT_DRUM_ROWS

-----------------------------------------------------------------------------
(* ensureDrumPattern *)

\* The events one legacy grid row turns into (ids are given afterwards).
LegacyRowEvents(cells, drum, stepBeats) ==
    LET active == SelectSeq([i \in 1..Len(cells) |-> i], LAMBDA i : cells[i])
    IN [n \in 1..Len(active) |->
            [id |-> 0, drum |-> drum,
             start |-> IF IsFinite(stepBeats) THEN (active[n] - 1) * stepBeats
                       ELSE NaN,
             duration |-> stepBeats, velocity |-> 90]]

\* pattern.grid.forEach of the legacy conversion: row.forEach raises a
\* TypeError on a row that is no array, unless the row has no drum name;
\* events are then what the rows before it gave.
LegacyGrid(pattern, block, rows) ==
    LET steps == IF IsFinite(pattern.steps) THEN pattern.steps ELSE 16
        stepBeats == IF steps = 0 \/ ~IsFinite(block.length) THEN NaN
                     ELSE block.length \div steps
        legacyRows == IF pattern.rows.t = "arr" THEN pattern.rows.items
                      ELSE rows.items
        drumOf(r) == IF At(legacyRows, r) # "" THEN At(legacyRows, r)
                     ELSE At(rows.items, r)
        grid == pattern.grid.rows
        bad == {r \in 1..Len(grid) : drumOf(r) # "" /\ grid[r].t # "arr"}
        done == IF bad = {} THEN Len(grid)
                ELSE (CHOOSE r \in bad : \A q \in bad : r <= q) - 1
    IN [threw |-> bad # {},
        events |-> Flatten([r \in 1..done |->
                       IF drumOf(r) = "" THEN <<>>
                       ELSE LegacyRowEvents(grid[r].cells, drumOf(r), stepBeats)])]

\* event && pattern.rows.includes(event.drum)
KeepsEventAnyDrum(event, rows) == TRUE

KeepsEvent(event, rows) == event.drum \in SeqToSet(rows)

\* event.id || createId()
EventIdRedrawn(event, fresh) == fresh

EventId(event, fresh) == IF event.id # 0 THEN event.id ELSE fresh

\* A normalisation that lengthens the hit on every call.
normalizeEventStretched(event, id) ==
    [id |-> id,
     drum |-> event.drum,
     start |-> IF IsFinite(event.start) THEN Max(0, event.start) ELSE 0,
     duration |-> IF IsFinite(event.duration) THEN Max(50, event.duration) + 50
                  ELSE 250,
     velocity |-> IF IsFinite(event.velocity) THEN clamp(event.velocity, 0, 100)
                  ELSE 90]

normalizeEvent(event, id) ==
    [id |-> id,
     drum |-> event.drum,
     start |-> IF IsFinite(event.start) THEN Max(0, event.start) ELSE 0,
     duration |-> IF IsFinite(event.duration) THEN Max(50, event.duration) ELSE 250,
     velocity |-> IF IsFinite(event.velocity) THEN clamp(event.velocity, 0, 100)
                  ELSE 90]

\* ensureDrumPattern(block, rows): rows is an ArrayArg or NumberArg; ids of
\* new events are drawn above idBase.  Returns the block as the call leaves
\* it, and threw = TRUE when the call raises: the legacy conversion raises
\* after pattern.events was filled, events.filter raises after pattern.rows
\* was set, and block.pattern is the pattern only if it was one before.
ensureDrumPattern(block, rows, idBase) ==
    LET given == block.pattern
        pattern == IF given.kind \in {"object", "array"} THEN given ELSE EmptyObject
        legacy == pattern.events.t = "absent" /\ pattern.grid.t = "arr"
        conv == IF legacy THEN LegacyGrid(pattern, block, rows)
                ELSE [threw |-> FALSE, events |-> <<>>]
        legacyEvents == [n \in 1..Len(conv.events) |->
                            [conv.events[n] EXCEPT !.id = createId(idBase, n)]]
        events0 == IF legacy THEN legacyEvents ELSE pattern.events.items
        newRows == IF rows.isArray /\ Len(rows.items) > 0 THEN rows.items
                   ELSE DEFAULT_DRUM_ROWS
        kept == SelectSeq(events0, LAMBDA e : KeepsEvent(e, newRows))
        events == [k \in 1..Len(kept) |->
                      normalizeEvent(kept[k],
                          EventId(kept[k], createId(idBase, Len(events0) + k)))]
        oldMap == IF pattern.volumes.t = "obj" THEN pattern.volumes.map
                  ELSE NoVolumeMap
        volumes == [d \in DrumNames |->
                       IF d \in SeqToSet(newRows) /\ ~IsFinite(oldMap[d]) THEN 90
                       ELSE oldMap[d]]
    IN IF conv.threw \/ pattern.events.t = "junk"
       THEN [threw |-> TRUE,
             block |-> IF given.kind \notin {"object", "array"} THEN block
                       ELSE IF conv.threw
                            THEN [block EXCEPT !.pattern.events =
                                     [t |-> "arr", items |-> legacyEvents]]
                            ELSE [block EXCEPT !.pattern.rows =
                                     [t |-> "arr", items |-> newRows]]]
       ELSE [threw |-> FALSE,
             block |-> [block EXCEPT !.pattern =
                           [pattern EXCEPT !.events = [t |-> "arr", items |-> events],
                                           !.rows = [t |-> "arr", items |-> newRows],
                                           !.volumes = [t |-> "obj", map |-> volumes]]]]

-----------------------------------------------------------------------------
(* normalizeProject *)

\* A track, block or note that is no object reads as one with every field
\* missing: isObject(x) ? x : {}.
NoNote == [pitch |-> NaN, start |-> NaN, duration |-> NaN, velocity |-> NaN]

NoBlock ==
    [id |-> 0, startBeat |-> NaN, length |-> NaN, notes |-> <<>>,
     pattern |-> PatternOf("falsy")]

NoTrack ==
    [id |-> 0, type |-> "", console |-> "", waveform |-> "", volume |-> NaN,
     pan |-> NaN, octave |-> NaN, mute |-> FALSE, solo |-> FALSE, blocks |-> <<>>]

normalizeNote(note) ==
    [pitch |-> IF IsFinite(note.pitch) THEN note.pitch ELSE 60,
     start |-> IF IsFinite(note.start) THEN Max(0, note.start) ELSE 0,
     duration |-> IF IsFinite(note.duration) THEN Max(125, note.duration) ELSE 250,
     velocity |-> IF IsFinite(note.velocity) THEN clamp(note.velocity, 0, 100) ELSE 90]

\* A normalizeBlocks element that takes startBeat and length as they come.
normalizeBlockAsGiven(safe, type, drumRows, idBase) ==
    LET created == createBlock(createId(idBase, 0), safe.startBeat, safe.length)
        normalized == [created EXCEPT !.id = IF safe.id # 0 THEN safe.id ELSE @]
    IN IF type = "synth"
       THEN [threw |-> FALSE,
             block |-> [normalized EXCEPT
                           !.notes = [n \in 1..Len(safe.notes) |->
                                         normalizeNote(safe.notes[n])],
                           !.pattern = IF safe.pattern.kind = "array"
                                       THEN safe.pattern ELSE EmptyArray]]
       ELSE ensureDrumPattern(
                [normalized EXCEPT !.pattern = IF safe.pattern.kind = "falsy"
                                               THEN EmptyArray ELSE safe.pattern],
                ArrayArg(drumRows), idBase)

\* One element of blocks.map in normalizeBlocks; idBase is private to the block.
normalizeBlock(safe, type, drumRows, idBase) ==
    LET startBeat == IF IsFinite(safe.startBeat) THEN Max(0, safe.startBeat) ELSE 0
        length == IF IsFinite(safe.length) THEN Max(250, safe.length) ELSE 4000
        created == createBlock(createId(idBase, 0), startBeat, length)
        normalized == [created EXCEPT !.id = IF safe.id # 0 THEN safe.id ELSE @]
    IN IF type = "synth"
       THEN [threw |-> FALSE,
             block |-> [normalized EXCEPT
                           !.notes = [n \in 1..Len(safe.notes) |->
                                         normalizeNote(safe.notes[n])],
                           !.pattern = IF safe.pattern.kind = "array"
                                       THEN safe.pattern ELSE EmptyArray]]
       ELSE ensureDrumPattern(
                [normalized EXCEPT !.pattern = IF safe.pattern.kind = "falsy"
                                               THEN EmptyArray ELSE safe.pattern],
                ArrayArg(drumRows), idBase)

normalizeBlocks(blocks, type, drumRows, idBase) ==
    [j \in 1..Len(blocks) |->
        normalizeBlock(blocks[j], type, drumRows, idBase + j * IdStride)]

\* trackIndex is 0-based as in the source.
\* The object normalizeTrack returns; blocks is what normalizeBlocks gave,
\* each with whether its ensureDrumPattern raised.
TrackOf(safe, base, type, consoleName, waveform, blocks) ==
    [threw |-> \E j \in 1..Len(blocks) : blocks[j].threw,
     track |-> [id |-> IF safe.id # 0 THEN safe.id ELSE base.id,
                type |-> type,
                console |-> consoleName,
                waveform |-> waveform,
                volume |-> IF IsFinite(safe.volume) THEN clamp(safe.volume, 0, 100)
                           ELSE base.volume,
                pan |-> IF IsFinite(safe.pan) THEN clamp(safe.pan, -100, 100)
                        ELSE base.pan,
                octave |-> IF IsFinite(safe.octave) THEN clamp(safe.octave, -3, 3)
                           ELSE base.octave,
                mute |-> safe.mute,
                solo |-> safe.solo,
                blocks |-> [j \in 1..Len(blocks) |-> blocks[j].block]]]

normalizeTrack(safe, trackIndex, idBase) ==
    LET base == createTrack(createId(idBase, 0), trackIndex, "")
        type == IF safe.type \in {"drums", "synth"} THEN safe.type ELSE base.type
        consoleName == IF safe.console \in DOMAIN CONSOLE_WAVES THEN safe.console
                       ELSE base.console
        waves == CONSOLE_WAVES[consoleName]
        waveform == IF safe.waveform \in SeqToSet(waves) THEN safe.waveform
                    ELSE IF Len(waves) > 0 THEN waves[1] ELSE base.waveform
    IN TrackOf(safe, base, type, consoleName, waveform,
               normalizeBlocks(safe.blocks, type,
                               getDrumRowsForConsole(consoleName), idBase))

\* return { name, bpm, tracks } of normalizeProject; tracks is what the
\* normalizeTrack calls gave.
ProjectOf(name, bpm, tracks) ==
    [threw |-> \E i \in 1..Len(tracks) : tracks[i].threw,
     project |-> [name |-> name, bpm |-> bpm,
                  tracks |-> [i \in 1..Len(tracks) |-> tracks[i].track]]]

normalizeProject(rawProject, idBase) ==
    LET bpm == IF IsFinite(rawProject.bpm) THEN clamp(rawProject.bpm, 40, 240) ELSE 120
        incomingTracks == SubSeq(rawProject.tracks, 1,
                                 Min(Len(rawProject.tracks), MAX_TRACKS))
        name == IF rawProject.name # "" THEN rawProject.name ELSE "Untitled Project"
        trackCount == Max(Len(incomingTracks), MIN_TRACKS)
    IN ProjectOf(name, bpm,
                 [i \in 1..trackCount |->
                     normalizeTrack(IF i <= Len(incomingTracks) THEN incomingTracks[i]
                                    ELSE NoTrack,
                                    i - 1, idBase + i * TrackIdStride)])

NoProject == [name |-> "", bpm |-> NaN, tracks |-> <<>>]

\* What a normalizeProject call leaves in rawProject itself.  For a drum
\* track normalizeBlocks hands the block's own pattern object, when it has
\* one, to the new block (normalized.pattern = safe.pattern || []), and
\* ensureDrumPattern then writes events, rows and volumes into that object.
\* The type and console normalizeTrack settles on for a raw track.
NormalType(safe, trackIndex) ==
    IF safe.type \in {"drums", "synth"} THEN safe.type
    ELSE createTrack(0, trackIndex, "").type

NormalConsole(safe, trackIndex) ==
    IF safe.console \in DOMAIN CONSOLE_WAVES THEN safe.console
    ELSE createTrack(0, trackIndex, "").console

SharesPattern(rawProject, i, j, idBase) ==
    /\ i <= MAX_TRACKS
    /\ NormalType(rawProject.tracks[i], i - 1) # "synth"
    /\ rawProject.tracks[i].blocks[j].pattern.kind \in {"object", "array"}

RawBlockResult(rawProject, i, j, idBase) ==
    normalizeBlock(rawProject.tracks[i].blocks[j],
                   NormalType(rawProject.tracks[i], i - 1),
                   getDrumRowsForConsole(NormalConsole(rawProject.tracks[i], i - 1)),
                   idBase + i * TrackIdStride + j * IdStride)

\* A raise ends the call: the blocks behind the raising one are not reached.
ReachesBlock(rawProject, i, j, idBase) ==
    \A i2 \in 1..i : \A j2 \in 1..Len(rawProject.tracks[i2].blocks) :
        (i2 < i \/ j2 < j) => ~RawBlockResult(rawProject, i2, j2, idBase).threw

\* The raw block once its pattern object was written by the call.
WrittenBlock(rawBlock, result) == [rawBlock EXCEPT !.pattern = result.block.pattern]

NormalizedInPlace(rawProject, idBase) ==
    [rawProject EXCEPT !.tracks =
        [i \in 1..Len(rawProject.tracks) |->
            [rawProject.tracks[i] EXCEPT !.blocks =
                [j \in 1..Len(rawProject.tracks[i].blocks) |->
                    IF /\ SharesPattern(rawProject, i, j, idBase)
                       /\ ReachesBlock(rawProject, i, j, idBase)
                    THEN WrittenBlock(rawProject.tracks[i].blocks[j],
                                      RawBlockResult(rawProject, i, j, idBase))
                    ELSE rawProject.tracks[i].blocks[j]]]]]

-----------------------------------------------------------------------------
(* JSON.parse(JSON.stringify(value)): an array is written as its indexed   *)
(* elements only, so the properties hung on an array pattern are not       *)
(* written; everything else of a project is plain data and comes back      *)
(* equal.                                                                  *)

JsonPattern(pattern) ==
    IF pattern.kind = "array" THEN EmptyArray ELSE pattern

JsonBlock(block) == [block EXCEPT !.pattern = JsonPattern(@)]

JsonTrack(track) ==
    [track EXCEPT !.blocks = [j \in 1..Len(track.blocks) |-> JsonBlock(track.blocks[j])]]

JsonClone(value) ==
    [value EXCEPT !.tracks = [i \in 1..Len(value.tracks) |->
                                   JsonTrack(value.tracks[i])]]

-----------------------------------------------------------------------------
(* buildProjectFromMidi (midiImport.js).  midi is [ppq, tempo, tracks], a  *)
(* track being the sequence of notes [channel, note, start, end, velocity] *)
(* that parseMidi paired, start and end in ticks.                          *)

mapDrum(noteNumber) ==
    IF noteNumber \in {35, 36} THEN "kick"
    ELSE IF noteNumber \in {38, 40} THEN "snare"
    ELSE IF noteNumber \in {42, 44, 46} THEN "hat"
    ELSE "perc"

\* Math.round(a / b) for a >= 0, b > 0.
RoundDiv(a, b) == (2 * a + b) \div (2 * b)

\* Math.ceil(a / b) for a >= 0, b > 0.
CeilDiv(a, b) == (a + b - 1) \div b

\* The channels other than 9 in first-seen order (a Set keeps insertion order).
RECURSIVE Distinct(_)
Distinct(s) ==
    IF s = <<>> THEN <<>>
    ELSE LET rest == Distinct(SubSeq(s, 1, Len(s) - 1))
             last == s[Len(s)]
         IN IF last \in SeqToSet(rest) THEN rest ELSE Append(rest, last)

\* note.start / midi.ppq; a division by 0 gives NaN for 0 / 0 and Infinity
\* for the other ticks.
MidiStart(note, ppq) ==
    IF ppq = 0 THEN (IF note.start = 0 THEN NaN ELSE Infinity)
    ELSE (note.start * 1000) \div ppq

\* Math.max(0.05, (note.end - note.start) / midi.ppq); Math.max of a NaN is
\* NaN.
MidiDuration(note, ppq) ==
    IF ppq = 0 THEN (IF note.end = note.start THEN NaN ELSE Infinity)
    ELSE Max(50, ((note.end - note.start) * 1000) \div ppq)

\* endBeat = start + duration
MidiEndBeat(note, ppq) ==
    LET start == MidiStart(note, ppq)
        duration == MidiDuration(note, ppq)
    IN IF start = NaN \/ duration = NaN THEN NaN
       ELSE IF start = Infinity \/ duration = Infinity THEN Infinity
       ELSE start + duration

\* A velocity spread evenly over 0.1 .. 1.
MidiVelocityLinear(note) == 10 + RoundDiv(note.velocity * 90, 127)

MidiVelocity(note) == Max(10, Min(100, RoundDiv(note.velocity * 100, 127)))

MidiNote(note, ppq) ==
    [pitch |-> note.note, start |-> MidiStart(note, ppq),
     duration |-> MidiDuration(note, ppq), velocity |-> MidiVelocity(note)]

MidiDrumEvent(note, ppq, id) ==
    [id |-> id, drum |-> mapDrum(note.note), start |-> MidiStart(note, ppq),
     duration |-> MidiDuration(note, ppq), velocity |-> MidiVelocity(note)]

buildProjectFromMidi(m, idBase) ==
    LET tempo == IF m.tempo = 0 THEN 500000 ELSE m.tempo
        bpm == RoundDiv(60000000, tempo)
        allNotes == Flatten(m.tracks)
        drumNotes == SelectSeq(allNotes, LAMBDA n : n.channel = 9)
        synthNotes == SelectSeq(allNotes, LAMBDA n : n.channel # 9)
        channelList == Distinct([i \in 1..Len(synthNotes) |-> synthNotes[i].channel])
        useChannelGrouping == Len(channelList) > 1
        byChannel == [c \in 1..Len(channelList) |->
                         SelectSeq(allNotes, LAMBDA n : n.channel = channelList[c])]
        byChunk == [t \in 1..Len(m.tracks) |->
                       SelectSeq(m.tracks[t], LAMBDA n : n.channel # 9)]
        groups == SelectSeq(IF useChannelGrouping THEN byChannel ELSE byChunk,
                            LAMBDA g : Len(g) > 0)
        ends == {MidiEndBeat(n, m.ppq) : n \in SeqToSet(allNotes)}
        maxBeat == IF ends = {} THEN 4000
                   ELSE IF NaN \in ends THEN NaN
                   ELSE Max(4000, CHOOSE e \in ends : \A f \in ends : f <= e)
        totalBeats == IF maxBeat = NaN \/ maxBeat = Infinity THEN maxBeat
                      ELSE Max(4000, CeilDiv(maxBeat, 4000) * 4000)
        synthTracks ==
            [g \in 1..Len(groups) |->
                [createTrack(createId(idBase, g * IdStride), g - 1, "synth") EXCEPT
                    !.blocks = << [createBlock(createId(idBase, g * IdStride + 1),
                                               0, totalBeats) EXCEPT
                                     !.notes = [k \in 1..Len(groups[g]) |->
                                                   MidiNote(groups[g][k], m.ppq)]] >>]]
        drumBase == idBase + (Len(groups) + 1) * IdStride
        drumBlock == ensureDrumPattern(createBlock(createId(drumBase, 1), 0, 4000),
                                       ArrayArg(getDrumRowsForConsole("NES")),
                                       drumBase).block
        drumTrack ==
            [createTrack(createId(drumBase, 0), Len(groups), "drums") EXCEPT
                !.console = "NES",
                !.blocks = << [drumBlock EXCEPT
                                 !.length = totalBeats,
                                 !.pattern.events =
                                     [t |-> "arr",
                                      items |-> [k \in 1..Len(drumNotes) |->
                                          MidiDrumEvent(drumNotes[k], m.ppq,
                                              createId(drumBase, 1 + k))]]] >>]
    IN [name |-> "Imported MIDI", bpm |-> bpm,
        tracks |-> IF Len(drumNotes) > 0 THEN Append(synthTracks, drumTrack)
                   ELSE synthTracks]

-----------------------------------------------------------------------------
(* Inputs of the pure data-model runs: what JSON.parse can hand to         *)
(* normalizeProject, and the blocks and rows handed to ensureDrumPattern.  *)

\* How many cells a legacy grid row of the inputs has.
GridCells == 2

RawEvents ==
    { [id |-> 7, drum |-> "kick", start |-> 0, duration |-> 250, velocity |-> 90],
      [id |-> 0, drum |-> "perc", start |-> NaN, duration |-> 10, velocity |-> 120],
      [id |-> 8, drum |-> "clap", start |-> -500, duration |-> NaN, velocity |-> NaN],
      [id |-> 0, drum |-> "bogus", start |-> 1000, duration |-> 250, velocity |-> 90] }

RawEventLists ==
    {<<>>} \cup {<<e>> : e \in RawEvents}
           \cup {<<e, f>> : e \in RawEvents, f \in RawEvents}

RawGridRows ==
    {[t |-> "junk", cells |-> <<>>]}
        \cup {[t |-> "arr", cells |-> c] : c \in [1..GridCells -> BOOLEAN]}

RawGrids ==
    {[t |-> "junk", rows |-> <<>>]}
        \cup {[t |-> "arr", rows |-> <<r>>] : r \in RawGridRows}
        \cup {[t |-> "arr", rows |-> <<r, q>>] :
                  r \in {x \in RawGridRows : x.t = "arr" /\ x.cells[1]},
                  q \in {x \in RawGridRows : x.t = "junk" \/ ~x.cells[1]}}

RawVolumes ==
    {AbsentVolumes,
     [t |-> "obj", map |-> [NoVolumeMap EXCEPT !["kick"] = 50, !["tom"] = 30]]}

RawPatterns ==
    {PatternOf("falsy"), PatternOf("prim"), EmptyArray}
        \cup {[EmptyObject EXCEPT !.events = [t |-> "arr", items |-> es],
                                  !.volumes = v] :
                  es \in RawEventLists, v \in RawVolumes}
        \cup {[EmptyObject EXCEPT !.events = [t |-> "junk", items |-> <<>>]]}
        \cup {[EmptyObject EXCEPT !.grid = g, !.steps = st, !.rows = rw] :
                  g \in RawGrids, st \in {NaN, 0, 8},
                  rw \in {AbsentRows, [t |-> "arr", items |-> <<"snare">>]}}

RawNotes ==
    { NoNote,
      [pitch |-> 60, start |-> 0, duration |-> 1000, velocity |-> 90],
      [pitch |-> 64, start |-> -250, duration |-> 10, velocity |-> 150] }

RawBlocks ==
    {NoBlock}
        \cup {[id |-> 5, startBeat |-> 0, length |-> 4000, notes |-> <<>>,
               pattern |-> pt] : pt \in RawPatterns}
        \cup {[id |-> 0, startBeat |-> -1000, length |-> 100, notes |-> <<n>>,
               pattern |-> PatternOf("falsy")] : n \in RawNotes}

RowArgs ==
    {NumberArg, ArrayArg(<<>>)} \cup {ArrayArg(DRUM_KITS[c]) : c \in DOMAIN DRUM_KITS}

RawTrackHeads ==
    { [NoTrack EXCEPT !.type = "drums", !.console = "C64", !.waveform = "saw",
                      !.id = 3, !.volume = 150, !.mute = TRUE],
      [NoTrack EXCEPT !.type = "drums", !.console = "Famicom", !.waveform = "fm"],
      [NoTrack EXCEPT !.type = "synth", !.console = "Sega", !.waveform = "noise",
                      !.pan = -300, !.octave = 7, !.solo = TRUE],
      [NoTrack EXCEPT !.console = "nope", !.waveform = "pulse50"] }

RawTracks ==
    {NoTrack}
        \cup {[h EXCEPT !.blocks = <<b>>] : h \in RawTrackHeads, b \in RawBlocks}

\* Lengths of the tracks arrays of the inputs: none, one, exactly as many as
\* the padding minimum, and one more than MAX_TRACKS.
RawProjects ==
    {NoProject}
        \cup {[name |-> "song", bpm |-> b, tracks |-> <<t>>] :
                  b \in {NaN, 120}, t \in RawTracks}
        \cup {[name |-> "", bpm |-> b, tracks |-> [i \in 1..n |-> NoTrack]] :
                  b \in {-5, 9999}, n \in {MIN_TRACKS, MAX_TRACKS + 1}}
        \cup {[name |-> "", bpm |-> b, tracks |-> <<>>] :
                  b \in {39, 40, 90, 240, 241, Infinity, 0 - Infinity}}

MidiNotes ==
    { [channel |-> 0, note |-> 60, start |-> 0,   end |-> 480,  velocity |-> 100],
      [channel |-> 1, note |-> 64, start |-> 480, end |-> 2400, velocity |-> 1],
      [channel |-> 9, note |-> 36, start |-> 0,   end |-> 0,    velocity |-> 127],
      [channel |-> 9, note |-> 51, start |-> 960, end |-> 1200, velocity |-> 64] }

MidiChunks == {<<>>} \cup {<<n>> : n \in MidiNotes}
                     \cup {<<n, k>> : n \in MidiNotes, k \in MidiNotes}

MidiInputs ==
    {[ppq |-> 480, tempo |-> t, tracks |-> <<c>>] :
         t \in {0, 500000, 250000, 2000000}, c \in MidiChunks}
        \cup {[ppq |-> 480, tempo |-> 500000, tracks |-> <<c, d>>] :
                  c \in MidiChunks, d \in {<<n>> : n \in MidiNotes}}

\* Identifier base of the pure runs' first and second calls.
FirstCall == CallIdStride

SecondCall == 2 * CallIdStride

NoResult == [threw |-> FALSE, project |-> NoProject]

NoEnsured == [threw |-> FALSE, block |-> NoBlock]

NoMidi == [ppq |-> 480, tempo |-> 0, tracks |-> <<>>]

-----------------------------------------------------------------------------
(* HistoryManager (dataModel.js).  Object graphs live in a heap; a clone   *)
(* is a new graph at an address nothing else holds.  Addresses that        *)
(* neither the stack nor `project` holds are garbage and read NoProject.   *)

\* HistoryManager's limit (main.js constructs it with the default, 100).
HistoryLimit == 3

Addrs == 1..(HistoryLimit + 2)

Alloc(used) == CHOOSE a \in Addrs : a \notin used /\ \A b \in Addrs \ used : a <= b

Collect(h, st, live) ==
    [a \in Addrs |-> IF a \in SeqToSet(st) \cup {live} THEN h[a] ELSE NoProject]

\* A clone that hands back the object it was given.
HistoryCloneSameObject(h, a, keep) == [heap |-> h, addr |-> a]

\* this.clone(value) = JSON.parse(JSON.stringify(value)); keep is what must
\* not be overwritten.
HistoryClone(h, a, keep) ==
    LET n == Alloc(keep)
    IN [heap |-> [h EXCEPT ![n] = JsonClone(h[a])], addr |-> n]

\* A push that never drops the oldest snapshot.
PushedUnbounded(st, sn, ix, c) ==
    [heap |-> c.heap, stack |-> Append(st, c.addr), index |-> ix + 1,
     stored |-> Append(sn, c.heap[c.addr])]

\* The end of push(state): st and sn are the stack cut after the index
\* (with the contents), c the clone.
Pushed(st, sn, ix, c) ==
    IF Len(st) + 1 > HistoryLimit
    THEN [heap |-> c.heap, stack |-> Tail(Append(st, c.addr)), index |-> Len(st) - 1,
          stored |-> Tail(Append(sn, c.heap[c.addr]))]
    ELSE [heap |-> c.heap, stack |-> Append(st, c.addr), index |-> ix + 1,
          stored |-> Append(sn, c.heap[c.addr])]

\* A push that keeps the snapshots behind the index.
HistoryPushKeepingUndone(h, hist, state) ==
    Pushed(hist.stack, hist.stored, Len(hist.stack) - 1,
           HistoryClone(h, state, SeqToSet(hist.stack) \cup {state}))

\* push(state); hist is [stack, index, stored].
HistoryPush(h, hist, state) ==
    Pushed(SubSeq(hist.stack, 1, hist.index + 1),
           SubSeq(hist.stored, 1, hist.index + 1),
           hist.index,
           HistoryClone(h, state,
                        SeqToSet(SubSeq(hist.stack, 1, hist.index + 1)) \cup {state}))

\* reset(state)
HistoryReset(h, state) ==
    LET c == HistoryClone(h, state, {state})
    IN [heap |-> c.heap, stack |-> <<c.addr>>, index |-> 0,
        stored |-> <<c.heap[c.addr]>>]

-----------------------------------------------------------------------------
(* The editor session: main.js, with the callbacks of timeline.js and      *)
(* drumEditor.js that it wires.                                            *)

\* How many editor operations a behaviour may take.
MaxOps == 3

\* snap of the drum editor (constructor default, in 1/1000 beat).
Snap == 250

\* The consoles offered to the console select, the beats a pointer lands
\* on, and the tracks (1-based positions) that operations are aimed at.
EditConsoles == {"NES", "C64"}

PointerBeats == {0, Snap}

EditTracks == {1, 5}

NoOp == [op |-> "none", track |-> 0, prev |-> NoTrack]

Live == heap[project]

\* project.tracks.find((t) => t.id === id), as a 1-based position; 0: none.
FindTrack(p, id) ==
    LET hits == {i \in 1..Len(p.tracks) : p.tracks[i].id = id}
    IN IF hits = {} THEN 0 ELSE CHOOSE i \in hits : \A j \in hits : i <= j

FindBlock(track, id) ==
    LET hits == {j \in 1..Len(track.blocks) : track.blocks[j].id = id}
    IN IF hits = {} THEN 0 ELSE CHOOSE j \in hits : \A k \in hits : j <= k

\* DrumEditor.render(), the part that touches the model: the pattern of the
\* open block is reconciled to the kit of the track's console.
DrumEditorRender(p, ti, bi, idBase) ==
    [p EXCEPT !.tracks[ti].blocks[bi] =
        ensureDrumPattern(@, ArrayArg(getDrumRowsForConsole(p.tracks[ti].console)),
                          idBase).block]

\* The rest of refreshEditor() once the active track and block are looked
\* up (positions ti and bi, 0 when missing).
RefreshFound(p, ti, bi, idBase) ==
    IF ti = 0 \/ bi = 0 THEN [project |-> p, open |-> FALSE]
    ELSE IF p.tracks[ti].type = "drums"
         THEN [project |-> DrumEditorRender(p, ti, bi, idBase), open |-> TRUE]
         ELSE [project |-> p, open |-> TRUE]

BlockIn(p, ti, blockId) == IF ti = 0 THEN 0 ELSE FindBlock(p.tracks[ti], blockId)

\* refreshEditor(): closes the editor when the active track or block is
\* gone, renders the drum editor on a drum track.
refreshEditor(p, trackId, blockId, idBase) ==
    RefreshFound(p, FindTrack(p, trackId),
                 BlockIn(p, FindTrack(p, trackId), blockId), idBase)

\* The end of commitChange and of applyState: hist is the history (with
\* its heap) after the push or the undo, live the address of the project,
\* refreshed what refreshEditor() left.
Settle(hist, live, refreshed, op) ==
    /\ heap' = Collect([hist.heap EXCEPT ![live] = refreshed.project],
                       hist.stack, live)
    /\ stack' = hist.stack
    /\ index' = hist.index
    /\ stored' = hist.stored
    /\ project' = live
    /\ activeTrackId' = IF refreshed.open THEN activeTrackId ELSE 0
    /\ activeBlockId' = IF refreshed.open THEN activeBlockId ELSE 0
    /\ lastOp' = op

\* if (reRenderEditors && activeBlockId) refreshEditor()
AfterPush(hist, reRenderEditors, op) ==
    Settle(hist, project,
           IF reRenderEditors /\ activeBlockId # 0
           THEN refreshEditor(hist.heap[project], activeTrackId, activeBlockId,
                              nextId + IdStride)
           ELSE [project |-> hist.heap[project], open |-> activeBlockId # 0],
           op)

\* commitChange({record, reRenderEditors}) after the handler has left
\* newLive in the live project: history.push(project), then refreshEditor().
CommitChange(newLive, record, reRenderEditors, op) ==
    AfterPush(IF record
              THEN HistoryPush([heap EXCEPT ![project] = newLive],
                               [stack |-> stack, index |-> index, stored |-> stored],
                               project)
              ELSE [heap |-> [heap EXCEPT ![project] = newLive], stack |-> stack,
                    index |-> index, stored |-> stored],
              reRenderEditors, op)

\* applyState(nextState): nextState is an address the heap h already holds.
ApplyState(h, hist, nextState, op) ==
    Settle([heap |-> h, stack |-> hist.stack, index |-> hist.index,
            stored |-> hist.stored],
           nextState,
           IF activeBlockId # 0
           THEN refreshEditor(h[nextState], activeTrackId, activeBlockId,
                              nextId + IdStride)
           ELSE [project |-> h[nextState], open |-> FALSE],
           op)

CanAct == opCount < MaxOps

\* What the load input can deliver: files of this editor and foreign JSON.
LoadInputs ==
    { [name |-> "song", bpm |-> 90, tracks |->
          << [NoTrack EXCEPT !.id = 11, !.type = "drums", !.console = c,
                             !.blocks = << [id |-> 12, startBeat |-> 0, length |-> 4000,
                                            notes |-> <<>>, pattern |-> pt] >>] >>] :
         c \in {"NES", "C64"},
         pt \in {[EmptyObject EXCEPT !.events = [t |-> "arr", items |-> <<e>>]] :
                     e \in {x \in RawEvents : x.drum # "bogus"}}
                  \cup {[EmptyObject EXCEPT !.events = [t |-> "junk", items |-> <<>>]]} }

\* What localStorage can hold at start-up: nothing, or JSON text that an
\* earlier session or anything else left there.
CacheStates ==
    {[has |-> FALSE, parsed |-> NoProject]}
        \cup {[has |-> TRUE, parsed |-> p] : p \in LoadInputs}

\* The catch of loadProjectFromCache(): a raise of normalizeProject gives
\* null.
Caught(n) ==
    IF n.threw THEN [has |-> FALSE, project |-> NoProject]
    ELSE [has |-> TRUE, project |-> n.project]

loadProjectFromCache(cache) ==
    IF cache.has THEN Caught(normalizeProject(cache.parsed, 0))
    ELSE [has |-> FALSE, project |-> NoProject]

\* let project = cachedProject || normalizeProject(createDefaultProject())
OrDefault(cachedProject) ==
    IF cachedProject.has THEN cachedProject.project
    ELSE normalizeProject(createDefaultProject(0), 0).project

\* The defaultBlock main.js adds when the first track has no block.
StartBlock ==
    [createBlock(createId(CallIdStride, 1), 0, 4000) EXCEPT
        !.notes = << [pitch |-> 60, start |-> 0, duration |-> 1000,
                      velocity |-> 90] >>]

\* new HistoryManager(project), then the default block on the first track
\* and history.push(project) when that track has no block.
StartHistory(first) ==
    LET h0 == [a \in Addrs |-> IF a = 1 THEN first ELSE NoProject]
        made == HistoryReset(h0, 1)
        withBlock == [first EXCEPT !.tracks[1].blocks = <<StartBlock>>]
    IN IF Len(first.tracks[1].blocks) = 0
       THEN HistoryPush([made.heap EXCEPT ![1] = withBlock],
                        [stack |-> made.stack, index |-> made.index,
                         stored |-> made.stored], 1)
       ELSE made

StartStates ==
    {StartHistory(OrDefault(loadProjectFromCache(cache))) : cache \in CacheStates}

\* Start-up of main.js
InitEditor ==
    \E started \in StartStates :
       /\ heap = Collect(started.heap, started.stack, 1)
       /\ project = 1
       /\ stack = started.stack
       /\ index = started.index
       /\ stored = started.stored
       /\ nextId = 2 * CallIdStride
       /\ activeTrackId = 0
       /\ activeBlockId = 0
       /\ pendingConfirm = 0
       /\ opCount = 0
       /\ pointer = "up"
       /\ lastOp = NoOp

\* The editor variables of a behaviour that never starts the editor.
EditorIdle ==
    /\ heap = [a \in Addrs |-> NoProject]
    /\ project = 1
    /\ stack = <<>>
    /\ index = 0
    /\ stored = <<>>
    /\ nextId = 0
    /\ activeTrackId = 0
    /\ activeBlockId = 0
    /\ pendingConfirm = 0
    /\ opCount = 0
    /\ pointer = "none"
    /\ lastOp = NoOp

\* The data-model variables of a behaviour that makes no pure run.
NoSchedule == [project |-> NoProject, startTime |-> 0, ignoreMuteSolo |-> FALSE]

\* No file has been imported and no quantity read.
NoFile == [format |-> 0, ppq |-> 480, tempo |-> 0, tracks |-> <<>>]

NoImport ==
    [threw |-> FALSE, error |-> "", midi |-> NoFile, project |-> NoProject]

NoQuantity == [offset |-> 0, value |-> 0, next |-> 0]

\* No scheduleSynthNote call was made.
NoSynthNote == [called |-> FALSE]

MidiIdle ==
    /\ bytes = <<>>
    /\ fileImport = NoImport
    /\ decoded = NoQuantity

ModelIdle ==
    /\ pc = "idle"
    /\ raw = NoProject
    /\ rawNow = NoProject
    /\ blk = NoBlock
    /\ rowsArg = NumberArg
    /\ midi = NoMidi
    /\ norm1 = NoResult
    /\ norm2 = NoResult
    /\ ens1 = NoEnsured
    /\ ens2 = NoEnsured
    /\ imported = NoProject
    /\ sched = NoSchedule
    /\ passes = <<>>
    /\ MidiIdle
    /\ endBeat = 0
    /\ synthNote = NoSynthNote

\* The AudioEngine constructor.  Timers and buses are numbered from 1 in
\* the order of their creation; 0 stands for null.
NoGains == [id \in {} |-> 0]

NewEngine ==
    [context |-> FALSE, isPlaying |-> FALSE, loop |-> FALSE,
     playStartTime |-> 0, playDuration |-> 0, loopTimer |-> 0,
     previewTimer |-> 0, previewStartTime |-> 0, previewDuration |-> 0,
     previewLoop |-> FALSE, playBus |-> 0, previewBus |-> 0,
     trackGains |-> NoGains]

\* No AudioContext yet; one made on this browser starts out running.
NoContext == [state |-> "none", starts |-> "running", resuming |-> FALSE]

\* main.js at start-up: nothing plays, no editor is open, no timer armed.
NoUi ==
    [isPlaying |-> FALSE, loopEnabled |-> FALSE, previewEnabled |-> FALSE,
     editing |-> 0, stopTimer |-> "none", stopAfter |-> 0, clicks |-> 0,
     last |-> "none"]

\* The transport variables of a behaviour that never touches the engine.
EngineIdle ==
    /\ song = NoProject
    /\ audio = FALSE
    /\ clock = 0
    /\ engine = NewEngine
    /\ timers = <<>>
    /\ buses = <<>>
    /\ played = <<>>
    /\ ctx = NoContext
    /\ ui = NoUi

InitModel ==
    /\ pc \in {"project", "block", "midi"}
    /\ raw \in (IF pc = "project" THEN RawProjects ELSE {NoProject})
    /\ rawNow = raw
    /\ blk \in (IF pc = "block" THEN RawBlocks ELSE {NoBlock})
    /\ rowsArg \in (IF pc = "block" THEN RowArgs ELSE {NumberArg})
    /\ midi \in (IF pc = "midi" THEN MidiInputs ELSE {NoMidi})
    /\ norm1 = NoResult
    /\ norm2 = NoResult
    /\ ens1 = NoEnsured
    /\ ens2 = NoEnsured
    /\ imported = NoProject
    /\ sched = NoSchedule
    /\ passes = <<>>
    /\ MidiIdle
    /\ endBeat = 0
    /\ synthNote = NoSynthNote
    /\ EditorIdle
    /\ EngineIdle

\* project = normalizeProject(parsed)
Normalize ==
    /\ pc = "project"
    /\ norm1' = normalizeProject(raw, FirstCall)
    /\ rawNow' = NormalizedInPlace(raw, FirstCall)
    /\ pc' = "normalized"
    /\ UNCHANGED <<raw, norm2, blk, rowsArg, ens1, ens2, midi, imported, sched, passes,
                   bytes, fileImport, decoded, endBeat, synthNote,
                   editorVars, engineVars>>

\* normalizeProject(JSON.parse(JSON.stringify(project)))
RoundTrip ==
    /\ pc = "normalized"
    /\ ~norm1.threw
    /\ norm2' = normalizeProject(JsonClone(norm1.project), SecondCall)
    /\ pc' = "roundtrip"
    /\ UNCHANGED <<raw, rawNow, norm1, blk, rowsArg, ens1, ens2, midi, imported, sched, passes,
                   bytes, fileImport, decoded, endBeat, synthNote,
                   editorVars, engineVars>>

\* ensureDrumPattern(block, rows)
Ensure ==
    /\ pc = "block"
    /\ ens1' = ensureDrumPattern(blk, rowsArg, FirstCall)
    /\ pc' = "ensured"
    /\ UNCHANGED <<raw, rawNow, norm1, norm2, blk, rowsArg, ens2, midi, imported, sched, passes,
                   bytes, fileImport, decoded, endBeat, synthNote,
                   editorVars, engineVars>>

\* ensureDrumPattern(block, rows) again, on the block the first call left
EnsureAgain ==
    /\ pc = "ensured"
    /\ ~ens1.threw
    /\ ens2' = ensureDrumPattern(ens1.block, rowsArg, SecondCall)
    /\ pc' = "ensured2"
    /\ UNCHANGED <<raw, rawNow, norm1, norm2, blk, rowsArg, ens1, midi, imported, sched, passes,
                   bytes, fileImport, decoded, endBeat, synthNote,
                   editorVars, engineVars>>

\* buildProjectFromMidi(midi, file.name)
Import ==
    /\ pc = "midi"
    /\ imported' = buildProjectFromMidi(midi, FirstCall)
    /\ pc' = "imported"
    /\ UNCHANGED <<raw, rawNow, norm1, norm2, blk, rowsArg, ens1, ens2, midi, sched, passes,
                   bytes, fileImport, decoded, endBeat, synthNote,
                   editorVars, engineVars>>

\* A later edit of the returned project: a hit is pushed onto
\* pattern.events of one of its drum blocks, as handlePointer of the drum
\* editor does.  The block's pattern is an object of raw as well when
\* normalizeBlocks took it from there.
EditResult ==
    /\ pc = "normalized"
    /\ ~norm1.threw
    /\ \E i \in 1..Len(norm1.project.tracks) :
          \E j \in 1..Len(norm1.project.tracks[i].blocks) :
             /\ norm1.project.tracks[i].type = "drums"
             /\ norm1' = [norm1 EXCEPT !.project.tracks[i].blocks[j].pattern.events.items =
                             Append(@, [id |-> createId(SecondCall, 1),
                                        drum |-> norm1.project.tracks[i].blocks[j]
                                                     .pattern.rows.items[1],
                                        start |-> 0, duration |-> Snap,
                                        velocity |-> 90])]
             /\ rawNow' = IF /\ i <= Len(raw.tracks)
                             /\ j <= Len(raw.tracks[i].blocks)
                             /\ SharesPattern(raw, i, j, FirstCall)
                          THEN [rawNow EXCEPT !.tracks[i].blocks[j].pattern =
                                   norm1'.project.tracks[i].blocks[j].pattern]
                          ELSE rawNow
    /\ pc' = "edited"
    /\ UNCHANGED <<raw, norm2, blk, rowsArg, ens1, ens2, midi, imported, sched, passes,
                   bytes, fileImport, decoded, endBeat, synthNote,
                   editorVars, engineVars>>

NextModel == Normalize \/ RoundTrip \/ Ensure \/ EnsureAgain \/ Import \/ EditResult

SpecModel == InitModel /\ [][NextModel]_vars


-----------------------------------------------------------------------------
(* Editor operations *)

\* addTrackBtn click
AddTrack ==
    /\ pointer = "up" /\ CanAct
    /\ Len(Live.tracks) < MAX_TRACKS
    /\ \E type \in {"synth", "drums"} :
          LET newTrack == createTrack(createId(nextId, 1), Len(Live.tracks), type)
          IN CommitChange([Live EXCEPT !.tracks = Append(@, newTrack)], TRUE, TRUE,
                          [op |-> "addTrack", track |-> newTrack.id, prev |-> NoTrack])
    /\ nextId' = nextId + CallIdStride
    /\ opCount' = opCount + 1
    /\ UNCHANGED <<pointer, pendingConfirm, modelVars,
                   engineVars>>

\* onTrackChange(trackId, changes): Object.assign(track, changes), then the
\* blocks of a drum track whose console changed go through
\* ensureDrumPattern(block, steps, rows), whose second argument is steps.
onTrackChange(p, ti, changes, idBase) ==
    LET track == p.tracks[ti]
        assigned == [track EXCEPT
                        !.console = IF changes.console # "" THEN changes.console ELSE @,
                        !.waveform = IF changes.waveform # "" THEN changes.waveform ELSE @]
        reconcile == assigned.type = "drums" /\ changes.console # ""
                        /\ changes.console # track.console
    IN [p EXCEPT !.tracks[ti] =
           IF reconcile
           THEN [assigned EXCEPT !.blocks =
                    [j \in 1..Len(assigned.blocks) |->
                        ensureDrumPattern(assigned.blocks[j], NumberArg,
                                          idBase + j * IdStride).block]]
           ELSE assigned]

\* consoleSelect change (timeline.js): the waveform is reset to the first
\* waveform of the new console.
ConsoleChange ==
    /\ pointer = "up" /\ CanAct
    /\ \E ti \in EditTracks \cap (1..Len(Live.tracks)), c \in EditConsoles :
          LET waveOptions == CONSOLE_WAVES[c]
              waveform == IF Len(waveOptions) > 0 THEN waveOptions[1] ELSE "square"
              track == Live.tracks[ti]
          IN CommitChange(
                 onTrackChange(Live, ti, [console |-> c, waveform |-> waveform], nextId),
                 TRUE, track.id = activeTrackId,
                 [op |-> "console", track |-> track.id, prev |-> track])
    /\ opCount' = opCount + 1
    /\ UNCHANGED <<nextId, pointer, pendingConfirm, modelVars,
                   engineVars>>

\* waveformSelect change (timeline.js): the options are the waveforms of
\* the track's console.
WaveformChange ==
    /\ pointer = "up" /\ CanAct
    /\ \E ti \in EditTracks \cap (1..Len(Live.tracks)) :
          LET track == Live.tracks[ti]
          IN \E w \in SeqToSet(CONSOLE_WAVES[track.console]) :
                CommitChange(
                    onTrackChange(Live, ti, [console |-> "", waveform |-> w], nextId),
                    TRUE, track.id = activeTrackId,
                    [op |-> "waveform", track |-> track.id, prev |-> NoTrack])
    /\ opCount' = opCount + 1
    /\ UNCHANGED <<nextId, pointer, pendingConfirm, modelVars,
                   engineVars>>

\* onAddBlock(trackId): a drum block goes through
\* ensureDrumPattern(newBlock, 16, rows), whose second argument is 16.
AddBlock ==
    /\ pointer = "up" /\ CanAct
    /\ \E ti \in EditTracks \cap (1..Len(Live.tracks)) :
          LET track == Live.tracks[ti]
              created == createBlock(createId(nextId, 1), 0, 4000)
              newBlock == IF track.type = "drums"
                          THEN ensureDrumPattern(created, NumberArg, nextId).block
                          ELSE created
          IN CommitChange([Live EXCEPT !.tracks[ti].blocks = Append(@, newBlock)],
                          TRUE, TRUE,
                          [op |-> "addBlock", track |-> track.id, prev |-> NoTrack])
    /\ nextId' = nextId + CallIdStride
    /\ opCount' = opCount + 1
    /\ UNCHANGED <<pointer, pendingConfirm, modelVars,
                   engineVars>>

\* openEditor(trackId, blockId) on a block of a drum track
OpenEditor ==
    /\ pointer = "up" /\ CanAct
    /\ \E ti \in 1..Len(Live.tracks) :
          /\ Live.tracks[ti].type = "drums"
          /\ \E bi \in 1..Len(Live.tracks[ti].blocks) :
                /\ heap' = [heap EXCEPT ![project] =
                               DrumEditorRender(Live, ti, bi, nextId + IdStride)]
                /\ activeTrackId' = Live.tracks[ti].id
                /\ activeBlockId' = Live.tracks[ti].blocks[bi].id
                /\ lastOp' = [op |-> "open", track |-> Live.tracks[ti].id,
                              prev |-> NoTrack]
    /\ opCount' = opCount + 1
    /\ UNCHANGED <<project, stack, index, stored, nextId, pointer, pendingConfirm, modelVars,
                   engineVars>>

\* closeEditor()
CloseEditor ==
    /\ pointer = "up" /\ CanAct
    /\ activeBlockId # 0
    /\ activeTrackId' = 0
    /\ activeBlockId' = 0
    /\ lastOp' = [op |-> "close", track |-> activeTrackId, prev |-> NoTrack]
    /\ opCount' = opCount + 1
    /\ UNCHANGED <<heap, project, stack, index, stored, nextId, pointer, pendingConfirm, modelVars,
                   engineVars>>

ActiveTrack == FindTrack(Live, activeTrackId)

ActiveBlock == IF ActiveTrack = 0 THEN 0
               ELSE FindBlock(Live.tracks[ActiveTrack], activeBlockId)

EditorOpen == activeBlockId # 0 /\ ActiveTrack # 0 /\ ActiveBlock # 0

ActiveEvents == Live.tracks[ActiveTrack].blocks[ActiveBlock].pattern.events.items

WithActiveEvents(items) ==
    [Live EXCEPT !.tracks[ActiveTrack].blocks[ActiveBlock].pattern.events.items = items]

\* findHitAt(events, drum, start), as a position; 0: none.
findHitAt(events, drum, start) ==
    LET hits == {k \in 1..Len(events) : events[k].drum = drum /\ events[k].start = start}
    IN IF hits = {} THEN 0 ELSE CHOOSE k \in hits : \A m \in hits : k <= m

RemoveAt(items, k) == SubSeq(items, 1, k - 1) \o SubSeq(items, k + 1, Len(items))

\* handlePointer of DrumEditor.render: a press on the grid removes the hit
\* found there or adds one, commits, and renders again.
ToggleHit ==
    /\ pointer = "up" /\ CanAct /\ EditorOpen
    /\ LET rows == getDrumRowsForConsole(Live.tracks[ActiveTrack].console)
           length == Live.tracks[ActiveTrack].blocks[ActiveBlock].length
           maxStart == Max(0, length - Snap)
       IN \E rowIndex \in 1..Len(rows), b \in PointerBeats :
             LET beat == clamp(b, 0, maxStart)
                 drum == rows[rowIndex]
                 existing == findHitAt(ActiveEvents, drum, beat)
                 hit == [id |-> createId(nextId, 1), drum |-> drum, start |-> beat,
                         duration |-> Snap, velocity |-> 90]
             IN CommitChange(
                    WithActiveEvents(IF existing # 0 THEN RemoveAt(ActiveEvents, existing)
                                     ELSE Append(ActiveEvents, hit)),
                    TRUE, TRUE,
                    [op |-> "toggle", track |-> activeTrackId, prev |-> NoTrack])
    /\ nextId' = nextId + CallIdStride
    /\ opCount' = opCount + 1
    /\ UNCHANGED <<pointer, pendingConfirm, modelVars,
                   engineVars>>

\* onMove of attachDrag: the hit follows the pointer to another row and
\* start; nothing is committed.
DragMove ==
    /\ CanAct /\ EditorOpen
    /\ LET rows == getDrumRowsForConsole(Live.tracks[ActiveTrack].console)
           length == Live.tracks[ActiveTrack].blocks[ActiveBlock].length
       IN \E k \in 1..Len(ActiveEvents), nextRow \in 1..Len(rows), b \in PointerBeats :
             LET event == ActiveEvents[k]
                 maxStart == Max(0, length - event.duration)
                 moved == [event EXCEPT !.start = clamp(b, 0, maxStart),
                                        !.drum = rows[nextRow]]
             IN CommitChange(WithActiveEvents([ActiveEvents EXCEPT ![k] = moved]),
                             FALSE, FALSE,
                             [op |-> "dragMove", track |-> activeTrackId,
                              prev |-> NoTrack])
    /\ pointer' = "down"
    /\ opCount' = opCount + 1
    /\ UNCHANGED <<nextId, pendingConfirm, modelVars,
                   engineVars>>

\* onMove of attachResize
ResizeMove ==
    /\ CanAct /\ EditorOpen
    /\ LET length == Live.tracks[ActiveTrack].blocks[ActiveBlock].length
       IN \E k \in 1..Len(ActiveEvents), d \in {0, Snap, 2 * Snap} :
             LET event == ActiveEvents[k]
                 maxDuration == Max(Snap, length - event.start)
                 resized == [event EXCEPT !.duration = clamp(d, Snap, maxDuration)]
             IN CommitChange(WithActiveEvents([ActiveEvents EXCEPT ![k] = resized]),
                             FALSE, FALSE,
                             [op |-> "resizeMove", track |-> activeTrackId,
                              prev |-> NoTrack])
    /\ pointer' = "down"
    /\ opCount' = opCount + 1
    /\ UNCHANGED <<nextId, pendingConfirm, modelVars,
                   engineVars>>

\* onUp of attachDrag and attachResize: the change is committed.
PointerUp ==
    /\ pointer = "down"
    /\ CommitChange(Live, TRUE, TRUE,
                    [op |-> "pointerUp", track |-> activeTrackId, prev |-> NoTrack])
    /\ pointer' = "up"
    /\ opCount' = opCount + 1
    /\ UNCHANGED <<nextId, pendingConfirm, modelVars,
                   engineVars>>

\* this.history of main.js as the methods of HistoryManager see it.
History == [stack |-> stack, index |-> index, stored |-> stored]

\* undo(): state is the address of the clone it returns, 0 for null.
HistoryUndo(h, hist, keep) ==
    IF hist.index <= 0 THEN [heap |-> h, index |-> hist.index, state |-> 0]
    ELSE LET c == HistoryClone(h, hist.stack[hist.index], keep)
         IN [heap |-> c.heap, index |-> hist.index - 1, state |-> c.addr]

\* redo(): state is the address of the clone it returns, 0 for null.
HistoryRedo(h, hist, keep) ==
    IF hist.index >= Len(hist.stack) - 1
    THEN [heap |-> h, index |-> hist.index, state |-> 0]
    ELSE LET c == HistoryClone(h, hist.stack[hist.index + 2], keep)
         IN [heap |-> c.heap, index |-> hist.index + 1, state |-> c.addr]

\* undoBtn click: history.undo(), then applyState when a state came back;
\* a click that gets null changes nothing.
Undo ==
    /\ pointer = "up" /\ CanAct
    /\ \E undone \in {HistoryUndo(heap, History, SeqToSet(stack) \cup {project})} :
          /\ undone.state # 0
          /\ ApplyState(undone.heap,
                        [stack |-> stack, index |-> undone.index, stored |-> stored],
                        undone.state, [op |-> "undo", track |-> 0, prev |-> NoTrack])
    /\ opCount' = opCount + 1
    /\ UNCHANGED <<nextId, pointer, pendingConfirm, modelVars,
                   engineVars>>

\* redoBtn click: history.redo(), then applyState when a state came back
Redo ==
    /\ pointer = "up" /\ CanAct
    /\ \E redone \in {HistoryRedo(heap, History, SeqToSet(stack) \cup {project})} :
          /\ redone.state # 0
          /\ ApplyState(redone.heap,
                        [stack |-> stack, index |-> redone.index, stored |-> stored],
                        redone.state, [op |-> "redo", track |-> 0, prev |-> NoTrack])
    /\ opCount' = opCount + 1
    /\ UNCHANGED <<nextId, pointer, pendingConfirm, modelVars,
                   engineVars>>

\* The body of the loadInput handler once the file is parsed: n is what
\* normalizeProject(parsed) gave.  A raise is caught and leaves everything
\* as it was; otherwise history.reset(project) and applyState(project).
Loaded(n) ==
    LET a == Alloc(SeqToSet(stack) \cup {project})
        made == HistoryReset([heap EXCEPT ![a] = n.project], a)
    IN IF n.threw
       THEN /\ lastOp' = [op |-> "loadFailed", track |-> 0, prev |-> NoTrack]
            /\ UNCHANGED <<heap, project, stack, index, stored,
                           activeTrackId, activeBlockId>>
       ELSE ApplyState(made.heap,
                       [stack |-> made.stack, index |-> made.index,
                        stored |-> made.stored],
                       a, [op |-> "load", track |-> 0, prev |-> NoTrack])

\* loadInput change
Load ==
    /\ pointer = "up" /\ CanAct
    /\ \E parsed \in LoadInputs : Loaded(normalizeProject(parsed, nextId))
    /\ nextId' = nextId + CallIdStride
    /\ opCount' = opCount + 1
    /\ UNCHANGED <<pointer, pendingConfirm, modelVars,
                   engineVars>>

\* What parseInt(ui.bpmInput.value, 10) can give: NaN for text that starts
\* with no number, or the integer that was typed.
TempoInputs == {NaN, 0, 100, 300}

\* bpmInput change: project.bpm = parseInt(ui.bpmInput.value, 10) || 120,
\* then commitChange({ reRenderTimeline: false, reRenderEditors: false }).
TempoChange ==
    /\ pointer = "up" /\ CanAct
    /\ \E parsed \in TempoInputs :
          CommitChange([Live EXCEPT !.bpm = IF parsed = NaN \/ parsed = 0 THEN 120
                                           ELSE parsed],
                       TRUE, FALSE,
                       [op |-> "tempo", track |-> 0, prev |-> NoTrack])
    /\ opCount' = opCount + 1
    /\ UNCHANGED <<nextId, pointer, pendingConfirm, modelVars, engineVars>>

\* onTrackDelete(trackId): the last track cannot be asked away; the
\* deletion itself waits in pendingConfirm for the dialog's answer.
RequestDelete ==
    /\ pointer = "up" /\ CanAct
    /\ Len(Live.tracks) > 1
    /\ \E ti \in EditTracks \cap (1..Len(Live.tracks)) :
          pendingConfirm' = Live.tracks[ti].id
    /\ opCount' = opCount + 1
    /\ UNCHANGED <<heap, project, stack, index, stored, nextId, activeTrackId,
                   activeBlockId, pointer, lastOp, modelVars, engineVars>>

\* confirmOkBtn click: pendingConfirm(), then closeConfirm().  The editor
\* is closed when its track is the deleted one, which refreshEditor() finds
\* out as well.
ConfirmDelete ==
    /\ pointer = "up" /\ CanAct
    /\ pendingConfirm # 0
    /\ CommitChange([Live EXCEPT !.tracks =
                        SelectSeq(@, LAMBDA item : item.id # pendingConfirm)],
                    TRUE, TRUE,
                    [op |-> "deleteTrack", track |-> pendingConfirm, prev |-> NoTrack])
    /\ pendingConfirm' = 0
    /\ opCount' = opCount + 1
    /\ UNCHANGED <<nextId, pointer, modelVars, engineVars>>

\* confirmCancelBtn click: closeConfirm()
CancelConfirm ==
    /\ pointer = "up" /\ CanAct
    /\ pendingConfirm # 0
    /\ pendingConfirm' = 0
    /\ opCount' = opCount + 1
    /\ UNCHANGED <<heap, project, stack, index, stored, nextId, activeTrackId,
                   activeBlockId, pointer, lastOp, modelVars, engineVars>>

Next ==
    \/ AddTrack \/ ConsoleChange \/ WaveformChange \/ AddBlock
    \/ OpenEditor \/ CloseEditor \/ ToggleHit \/ DragMove \/ ResizeMove
    \/ PointerUp \/ Undo \/ Redo \/ Load
    \/ RequestDelete \/ ConfirmDelete \/ CancelConfirm \/ TempoChange

Init == InitEditor /\ ModelIdle /\ EngineIdle

Spec == Init /\ [][Next]_vars

\* The editor session and the pure runs side by side: a behaviour is one
\* or the other.
InitPatterns == Init \/ InitModel

NextPatterns == Next \/ NextModel

SpecPatterns == InitPatterns /\ [][NextPatterns]_vars

-----------------------------------------------------------------------------
(* The transport: modules/audioEngine.js.                                  *)
(* The operators below work on a record w of what a call can change: the   *)
(* engine's fields, the timers, the buses, the log of scheduled iterations *)
(* and the project, whose drum patterns scheduling re-materializes.        *)

\* this.context.currentTime + 0.08
StartDelay == 80 * 1000

\* Math.min(0.2, duration / 3)
MaxLeadTime == 200 * 1000

\* beats * secondsPerBeat, with secondsPerBeat = 60 / bpm
BeatsToTime(beats, bpm) == beats * (60000 \div bpm)

\* The latest block end of a project, with no floor under it.
getProjectEndBeatUnfloored(p) ==
    LET ends == UNION {{p.tracks[i].blocks[j].startBeat + p.tracks[i].blocks[j].length :
                           j \in 1..Len(p.tracks[i].blocks)} : i \in 1..Len(p.tracks)}
    IN IF ends = {} THEN 0 ELSE CHOOSE m \in ends : \A e \in ends : e <= m

getProjectEndBeat(p) ==
    LET ends == UNION {{p.tracks[i].blocks[j].startBeat + p.tracks[i].blocks[j].length :
                           j \in 1..Len(p.tracks[i].blocks)} : i \in 1..Len(p.tracks)}
    IN Max(IF ends = {} THEN 0 ELSE CHOOSE m \in ends : \A e \in ends : e <= m, 4000)

\* Array.isArray(block.pattern?.rows) ? block.pattern.rows : DEFAULT_DRUM_ROWS
PatternRows(block) ==
    IF block.pattern.kind \in {"object", "array"} /\ block.pattern.rows.t = "arr"
    THEN ArrayArg(block.pattern.rows.items)
    ELSE ArrayArg(DEFAULT_DRUM_ROWS)

\* scheduleDrumPattern: the block as its ensureDrumPattern call leaves it,
\* and the times of the hits it schedules.
DrumBlock(block, idBase) ==
    ensureDrumPattern(block, PatternRows(block), idBase).block

\* The hit scheduleDrumHit is called for: event.velocity is not read, and the
\* duration is at least 0.05 beat.
DrumHit(id, event, offsetBeat, bpm, startOffset) ==
    [track |-> id,
     at |-> startOffset + BeatsToTime(offsetBeat + event.start, bpm),
     duration |-> BeatsToTime(Max(50, IF event.duration = 0 \/ event.duration = NaN
                                      THEN 250 ELSE event.duration), bpm),
     voice |-> event.drum]

DrumOnsets(id, ensured, offsetBeat, bpm, startOffset) ==
    {DrumHit(id, ensured.pattern.events.items[k], offsetBeat, bpm, startOffset) :
        k \in 1..Len(ensured.pattern.events.items)}

\* scheduleSynthNote returns before it makes a voice for a note without
\* frequency, duration or velocity.
Sounds(note) ==
    /\ IsFinite(note.pitch)
    /\ IsFinite(note.duration) /\ note.duration > 0
    /\ (IF IsFinite(note.velocity) THEN note.velocity ELSE 90) > 0

\* The voice is the MIDI number midiToFrequency is given.
NoteOnsets(track, block, offsetBeat, bpm, startTime) ==
    {[track |-> track.id,
      at |-> startTime + BeatsToTime(offsetBeat + block.notes[k].start, bpm),
      duration |-> BeatsToTime(block.notes[k].duration, bpm),
      voice |-> block.notes[k].pitch
                    + (IF IsFinite(track.octave) THEN track.octave ELSE 0) * 12] :
        k \in {n \in 1..Len(block.notes) : Sounds(block.notes[n])}}

\* made tells one output from another: it is the startTime of the
\* scheduleProject call that created the node.
createTrackOutput(master, volume, made) ==
    [bus |-> master, gain |-> volume, target |-> volume, made |-> made]

\* A filter that looks at mute alone.
SkippedMuted(p, track, ignoreMuteSolo) ==
    ~ignoreMuteSolo /\ track.mute

\* The tracks a scheduleProject call leaves out.
Skipped(p, track, ignoreMuteSolo) ==
    /\ ~ignoreMuteSolo
    /\ \/ track.mute
       \/ (\E i \in 1..Len(p.tracks) : p.tracks[i].solo) /\ ~track.solo

ScheduledTrack(track, idBase) ==
    IF track.type = "synth" THEN track
    ELSE [track EXCEPT !.blocks =
             [j \in 1..Len(track.blocks) |->
                 DrumBlock(track.blocks[j], idBase + j * IdStride)]]

ScheduledProject(p, ignoreMuteSolo, idBase) ==
    [p EXCEPT !.tracks =
        [i \in 1..Len(p.tracks) |->
            IF Skipped(p, p.tracks[i], ignoreMuteSolo) THEN p.tracks[i]
            ELSE ScheduledTrack(p.tracks[i], idBase + i * TrackIdStride)]]

TrackOnsets(track, bpm, startTime) ==
    UNION {IF track.type = "synth"
           THEN NoteOnsets(track, track.blocks[j], track.blocks[j].startBeat,
                           bpm, startTime)
           ELSE DrumOnsets(track.id, track.blocks[j], track.blocks[j].startBeat,
                           bpm, startTime) : j \in 1..Len(track.blocks)}

\* after is ScheduledProject(p, ...): the drum blocks are read once ensured.
ScheduledOnsets(p, after, startTime, ignoreMuteSolo) ==
    UNION {TrackOnsets(after.tracks[i], p.bpm, startTime) :
              i \in {n \in 1..Len(p.tracks) : ~Skipped(p, p.tracks[n], ignoreMuteSolo)}}

\* A scheduleProject that gives every track it schedules a new output.
ScheduledGainsAnew(p, master, ignoreMuteSolo, gains, startTime) ==
    [id \in DOMAIN gains \cup
              {p.tracks[i].id : i \in {n \in 1..Len(p.tracks) :
                                          ~Skipped(p, p.tracks[n], ignoreMuteSolo)}} |->
        IF \A i \in 1..Len(p.tracks) :
               p.tracks[i].id = id => Skipped(p, p.tracks[i], ignoreMuteSolo)
        THEN gains[id]
        ELSE createTrackOutput(master,
                 p.tracks[CHOOSE i \in 1..Len(p.tracks) : p.tracks[i].id = id].volume,
                 startTime)]

\* A track keeps the output the map already holds for its id; any other
\* gets a new one on master, at track.volume.
ScheduledGains(p, master, ignoreMuteSolo, gains, startTime) ==
    [id \in DOMAIN gains \cup
              {p.tracks[i].id : i \in {n \in 1..Len(p.tracks) :
                                          ~Skipped(p, p.tracks[n], ignoreMuteSolo)}} |->
        IF id \in DOMAIN gains THEN gains[id]
        ELSE createTrackOutput(master,
                 p.tracks[CHOOSE i \in 1..Len(p.tracks) : p.tracks[i].id = id].volume,
                 startTime)]

scheduleProject(p, startTime, master, ignoreMuteSolo, gains, idBase) ==
    [project |-> ScheduledProject(p, ignoreMuteSolo, idBase),
     onsets |-> ScheduledOnsets(p, ScheduledProject(p, ignoreMuteSolo, idBase),
                                startTime, ignoreMuteSolo),
     trackGains |-> ScheduledGains(p, master, ignoreMuteSolo, gains, startTime)]

\* updateTrackMix(project): the ramp target of every output the map holds.
MixTarget(p, track) ==
    IF track.mute \/ ((\E i \in 1..Len(p.tracks) : p.tracks[i].solo) /\ ~track.solo)
    THEN 0
    ELSE IF IsFinite(track.volume) THEN track.volume ELSE 80

updateTrackMix(e, p) ==
    IF ~e.context THEN e
    ELSE [e EXCEPT !.trackGains =
             [id \in DOMAIN e.trackGains |->
                 IF \E i \in 1..Len(p.tracks) : p.tracks[i].id = id
                 THEN [e.trackGains[id] EXCEPT !.target =
                          MixTarget(p, p.tracks[CHOOSE i \in 1..Len(p.tracks) :
                                                    p.tracks[i].id = id])]
                 ELSE e.trackGains[id]]]

clearTimeout(ts, id) ==
    IF id \in 1..Len(ts) /\ ts[id].state = "pending"
    THEN [ts EXCEPT ![id].state = "cleared"] ELSE ts

fadeOutAndDisconnect(bs, node) ==
    IF node = 0 THEN bs ELSE [bs EXCEPT ![node] = "released"]

\* Observer: the timers of this kind that a completed stop found armed.
Stopped(ts, kind) ==
    [i \in 1..Len(ts) |->
        IF ts[i].kind = kind THEN [ts[i] EXCEPT !.stopped = TRUE] ELSE ts[i]]

\* A stop that leaves the loop timer pending.
stopLeavingLoopTimer(w) ==
    [w EXCEPT
        !.timers = Stopped(clearTimeout(w.timers, w.engine.previewTimer), "loop"),
        !.buses = fadeOutAndDisconnect(w.buses, w.engine.playBus),
        !.engine = [w.engine EXCEPT !.previewTimer = 0,
                                    !.playBus = 0, !.trackGains = NoGains,
                                    !.isPlaying = FALSE]]

stop(w) ==
    [w EXCEPT
        !.timers = Stopped(clearTimeout(clearTimeout(w.timers, w.engine.loopTimer),
                                        w.engine.previewTimer), "loop"),
        !.buses = fadeOutAndDisconnect(w.buses, w.engine.playBus),
        !.engine = [w.engine EXCEPT !.loopTimer = 0, !.previewTimer = 0,
                                    !.playBus = 0, !.trackGains = NoGains,
                                    !.isPlaying = FALSE]]

\* A stopPreview that stops the playback as well.
stopPreviewAndPlayback(w) ==
    [w EXCEPT
        !.timers = Stopped(clearTimeout(clearTimeout(w.timers, w.engine.previewTimer),
                                        w.engine.loopTimer), "preview"),
        !.buses = fadeOutAndDisconnect(fadeOutAndDisconnect(w.buses,
                                                            w.engine.previewBus),
                                       w.engine.playBus),
        !.engine = [w.engine EXCEPT !.previewTimer = 0, !.previewBus = 0,
                                    !.previewStartTime = 0, !.previewDuration = 0,
                                    !.previewLoop = FALSE, !.loopTimer = 0,
                                    !.playBus = 0, !.isPlaying = FALSE]]

stopPreview(w) ==
    [w EXCEPT
        !.timers = Stopped(clearTimeout(w.timers, w.engine.previewTimer), "preview"),
        !.buses = fadeOutAndDisconnect(w.buses, w.engine.previewBus),
        !.engine = [w.engine EXCEPT !.previewTimer = 0, !.previewBus = 0,
                                    !.previewStartTime = 0, !.previewDuration = 0,
                                    !.previewLoop = FALSE]]

\* A re-arming that counts the next start from the clock reading of the
\* moment it runs instead.
RearmFromClock(loopStart, duration, now) ==
    [nextStart |-> now + duration,
     delay |-> Max(0, duration - Min(MaxLeadTime, duration \div 3))]

\* nextStart = loopStart + duration
\* delay = Math.max(0, (nextStart - currentTime - leadTime) * 1000)
Rearm(loopStart, duration, now) ==
    [nextStart |-> loopStart + duration,
     delay |-> Max(0, loopStart + duration - now - Min(MaxLeadTime, duration \div 3))]

\* window.setTimeout(callback, delay): the callback's closure holds
\* nextStart, duration (and track, block for a preview).
setTimeout(ts, kind, track, duration, armed) ==
    Append(ts, [kind |-> kind, track |-> track, nextStart |-> armed.nextStart,
                duration |-> duration, delay |-> armed.delay,
                state |-> "pending", stopped |-> FALSE])

\* Observer: one scheduled iteration.  by is the timer whose callback
\* scheduled it (0: the call itself); stale tells that a stop of its kind
\* had completed since that timer was armed.
Logged(w, kind, by, now, start, duration, track, onsets, bus) ==
    Append(w.played,
           [kind |-> kind, by |-> by, at |-> now, start |-> start,
            duration |-> duration, track |-> track, onsets |-> onsets, bus |-> bus,
            stale |-> by # 0 /\ w.timers[by].stopped,
            suspended |-> w.ctx.state = "suspended"])

\* scheduleLoop of playProject, up to `if (!this.loop) return`; r is the
\* scheduleProject call.
Iterated(w, r, loopStart, duration, by, now) ==
    [w EXCEPT !.song = r.project,
              !.engine.trackGains = r.trackGains,
              !.played = Logged(w, "play", by, now, loopStart, duration, 0,
                                r.onsets, w.engine.playBus)]

\* ... and from there on.
Rearmed(w, loopStart, duration, now) ==
    IF ~w.engine.loop THEN w
    ELSE [w EXCEPT !.timers = setTimeout(w.timers, "loop", 0, duration,
                                         Rearm(loopStart, duration, now)),
                   !.engine.loopTimer = Len(w.timers) + 1]

scheduleLoop(w, loopStart, duration, by, now) ==
    Rearmed(Iterated(w,
                     scheduleProject(w.song, loopStart, w.engine.playBus, TRUE,
                                     w.engine.trackGains, CallIdStride),
                     loopStart, duration, by, now),
            loopStart, duration, now)

\* The callback of the loop timer.
LoopCallback(w, id, now) ==
    IF ~w.engine.isPlaying \/ ~w.engine.loop THEN w
    ELSE scheduleLoop(w, w.timers[id].nextStart, w.timers[id].duration, id, now)

\* The `schedule` closure of playProject; duration is
\* getProjectEndBeat(project) * secondsPerBeat.
PlaySchedule(w, lp, duration, now) ==
    scheduleLoop([w EXCEPT
                     !.buses = Append(w.buses, "live"),
                     !.engine = updateTrackMix(
                         [w.engine EXCEPT !.context = TRUE,
                                          !.playBus = Len(w.buses) + 1,
                                          !.trackGains = NoGains,
                                          !.isPlaying = TRUE,
                                          !.loop = lp,
                                          !.playStartTime = now + StartDelay,
                                          !.playDuration = duration],
                         w.song)],
                 now + StartDelay, duration, 0, now)

\* runWithContext, when ensureContext returns true: the context exists from
\* here on, resume() is called on a suspended one, and the closure runs
\* next, in the same turn.
runWithContext(w) ==
    [w EXCEPT !.engine.context = TRUE,
              !.ctx.state = IF @ = "none" THEN w.ctx.starts ELSE @,
              !.ctx.resuming = \/ @
                               \/ w.ctx.state = "suspended"
                               \/ w.ctx.state = "none" /\ w.ctx.starts = "suspended"]

\* runWithContext runs the closure unless there is no context to be had.
playProject(w, lp, now, hasAudio) ==
    IF w.engine.context \/ hasAudio
    THEN PlaySchedule(runWithContext(stop(w)), lp,
                      BeatsToTime(getProjectEndBeat(w.song), w.song.bpm), now)
    ELSE stop(w)

\* scheduleOnce of previewBlock for the first block of track ti.  The
\* drum pattern is ensured on a copy of the block with startBeat 0, which
\* shares the pattern object when the block has one.
PreviewedBlock(block, idBase) ==
    IF block.pattern.kind \in {"object", "array"}
    THEN DrumBlock(block, idBase)
    ELSE block

\* A preview that keeps the block's place in the song.
PreviewOnsetsInSong(track, block, bpm, loopStart, idBase) ==
    IF track.type = "synth"
    THEN NoteOnsets(track, block, block.startBeat, bpm, loopStart)
    ELSE DrumOnsets(track.id, DrumBlock(block, idBase), block.startBeat, bpm, loopStart)

PreviewOnsets(track, block, bpm, loopStart, idBase) ==
    IF track.type = "synth"
    THEN NoteOnsets(track, block, 0, bpm, loopStart)
    ELSE DrumOnsets(track.id, DrumBlock(block, idBase), 0, bpm, loopStart)

scheduleOnce(w, ti, loopStart, duration, by, now) ==
    [w EXCEPT
        !.song.tracks[ti].blocks[1] =
            IF w.song.tracks[ti].type = "synth" THEN @
            ELSE PreviewedBlock(@, CallIdStride),
        !.played = Logged(w, "preview", by, now, loopStart, duration, ti,
                          PreviewOnsets(w.song.tracks[ti], w.song.tracks[ti].blocks[1],
                                        w.song.bpm, loopStart, CallIdStride),
                          w.engine.previewBus)]

\* scheduleLoop of previewBlock
previewScheduleLoop(w, ti, loopStart, duration, by, now) ==
    [scheduleOnce(w, ti, loopStart, duration, by, now) EXCEPT
        !.timers = setTimeout(w.timers, "preview", ti, duration,
                              Rearm(loopStart, duration, now)),
        !.engine.previewTimer = Len(w.timers) + 1]

\* The callback of the preview timer.
PreviewCallback(w, id, now) ==
    IF ~w.engine.previewLoop THEN w
    ELSE previewScheduleLoop(w, w.timers[id].track, w.timers[id].nextStart,
                     w.timers[id].duration, id, now)

\* The `schedule` closure of previewBlock; loopDuration is
\* block.length * secondsPerBeat.
PreviewSchedule(w, ti, lp, loopDuration, now) ==
    IF lp
    THEN previewScheduleLoop([w EXCEPT
                         !.buses = Append(w.buses, "live"),
                         !.engine = [w.engine EXCEPT
                                        !.context = TRUE,
                                        !.previewStartTime = now + StartDelay,
                                        !.previewDuration = loopDuration,
                                        !.previewLoop = lp,
                                        !.previewBus = Len(w.buses) + 1]],
                     ti, now + StartDelay, loopDuration, 0, now)
    ELSE scheduleOnce([w EXCEPT
                          !.buses = Append(w.buses, "live"),
                          !.engine = [w.engine EXCEPT
                                         !.context = TRUE,
                                         !.previewStartTime = now + StartDelay,
                                         !.previewDuration = loopDuration,
                                         !.previewLoop = lp,
                                         !.previewBus = Len(w.buses) + 1]],
                      ti, now + StartDelay, loopDuration, 0, now)

previewBlock(w, ti, lp, now, hasAudio) ==
    IF w.engine.context \/ hasAudio
    THEN PreviewSchedule(runWithContext(stopPreview(w)), ti, lp,
                         BeatsToTime(w.song.tracks[ti].blocks[1].length, w.song.bpm),
                         now)
    ELSE stopPreview(w)

-----------------------------------------------------------------------------
(* The transport as a state machine.  The clock is the audio clock, which  *)
(* the timers do not follow (it stands still while the context is          *)
(* suspended), so an armed timer may fire at any clock reading.            *)

MaxTicks == 2

MaxTimers == 3

MaxBuses == 2

TickStep == 1500 * 1000

\* Tempo, mute of the synth track and solo of the drum track.
EngineCases ==
    { [bpm |-> 120, mute |-> FALSE, solo |-> FALSE],
      [bpm |-> 240, mute |-> FALSE, solo |-> FALSE],
      [bpm |-> 240, mute |-> TRUE, solo |-> FALSE],
      [bpm |-> 240, mute |-> FALSE, solo |-> TRUE] }

\* The projects main.js hands to the engine come out of normalizeProject.
EngineInputs ==
    { [name |-> "song", bpm |-> c.bpm, tracks |->
          << [NoTrack EXCEPT !.id = 21, !.type = "synth", !.console = "NES",
                             !.waveform = "pulse50", !.volume = 50, !.mute = c.mute,
                             !.blocks = << [id |-> 22, startBeat |-> 0, length |-> 4000,
                                            notes |-> << [pitch |-> 60, start |-> 0,
                                                          duration |-> 1000,
                                                          velocity |-> 90],
                                                         [pitch |-> 64, start |-> 1000,
                                                          duration |-> 500,
                                                          velocity |-> 0] >>,
                                            pattern |-> PatternOf("falsy")] >>],
             [NoTrack EXCEPT !.id = 23, !.type = "drums", !.console = "NES",
                             !.waveform = "noise", !.volume = 80, !.solo = c.solo,
                             !.blocks = << [id |-> 24, startBeat |-> 2000,
                                            length |-> 4000, notes |-> <<>>,
                                            pattern |-> [EmptyObject EXCEPT !.events =
                                                [t |-> "arr", items |->
                                                    << [id |-> 7, drum |-> "kick",
                                                        start |-> 500, duration |-> 250,
                                                        velocity |-> 90],
                                                       [id |-> 8, drum |-> "snare",
                                                        start |-> 1000, duration |-> 250,
                                                        velocity |-> 0] >>]]] >>] >>] :
        c \in EngineCases }

EngineSongs == {normalizeProject(r, 0).project : r \in EngineInputs}

InitEngine ==
    /\ song \in EngineSongs
    /\ audio \in BOOLEAN
    /\ clock = 0
    /\ engine = NewEngine
    /\ timers = <<>>
    /\ buses = <<>>
    /\ played = <<>>
    /\ ctx = NoContext
    /\ ui = NoUi
    /\ ModelIdle
    /\ EditorIdle

World ==
    [engine |-> engine, timers |-> timers, buses |-> buses, played |-> played,
     song |-> song, ctx |-> ctx]

Becomes(w) ==
    /\ engine' = w.engine
    /\ timers' = w.timers
    /\ buses' = w.buses
    /\ played' = w.played
    /\ song' = w.song
    /\ ctx' = w.ctx

\* audioEngine.playProject(project, { loop: loopEnabled })
PlayProject ==
    /\ Len(buses) < MaxBuses /\ Len(timers) < MaxTimers
    /\ \E lp \in BOOLEAN : Becomes(playProject(World, lp, clock, audio))
    /\ UNCHANGED <<audio, clock, ui, modelVars, editorVars>>

\* audioEngine.stop()
Stop ==
    /\ Becomes(stop(World))
    /\ UNCHANGED <<audio, clock, ui, modelVars, editorVars>>

\* audioEngine.previewBlock(track, block, project.bpm, { loop: previewEnabled })
PreviewBlock ==
    /\ Len(buses) < MaxBuses /\ Len(timers) < MaxTimers
    /\ \E ti \in {i \in 1..Len(song.tracks) : Len(song.tracks[i].blocks) > 0},
          lp \in BOOLEAN :
          Becomes(previewBlock(World, ti, lp, clock, audio))
    /\ UNCHANGED <<audio, clock, ui, modelVars, editorVars>>

\* audioEngine.stopPreview()
StopPreview ==
    /\ Becomes(stopPreview(World))
    /\ UNCHANGED <<audio, clock, ui, modelVars, editorVars>>

Fired(w, id) == [w EXCEPT !.timers[id].state = "fired"]

\* A pending loop timer fires.
LoopTimerFires ==
    /\ Len(timers) < MaxTimers
    /\ \E id \in 1..Len(timers) :
          /\ timers[id].kind = "loop" /\ timers[id].state = "pending"
          /\ Becomes(LoopCallback(Fired(World, id), id, clock))
    /\ UNCHANGED <<audio, clock, ui, modelVars, editorVars>>

\* A pending preview timer fires.
PreviewTimerFires ==
    /\ Len(timers) < MaxTimers
    /\ \E id \in 1..Len(timers) :
          /\ timers[id].kind = "preview" /\ timers[id].state = "pending"
          /\ Becomes(PreviewCallback(Fired(World, id), id, clock))
    /\ UNCHANGED <<audio, clock, ui, modelVars, editorVars>>

\* The audio clock advances.
Tick ==
    /\ clock < MaxTicks * TickStep
    /\ clock' = clock + TickStep
    /\ UNCHANGED <<song, audio, engine, timers, buses, played, ctx, ui, modelVars,
                   editorVars>>

NextEngine ==
    \/ PlayProject \/ Stop \/ PreviewBlock \/ StopPreview
    \/ LoopTimerFires \/ PreviewTimerFires \/ Tick

SpecEngine == InitEngine /\ [][NextEngine]_vars

\* The same transport on a host whose clearTimeout can come too late: the
\* callback of a cleared timer may still run, once.
LoopTimerFiresLate ==
    /\ Len(timers) < MaxTimers
    /\ \E id \in 1..Len(timers) :
          /\ timers[id].kind = "loop" /\ timers[id].state = "cleared"
          /\ Becomes(LoopCallback(Fired(World, id), id, clock))
    /\ UNCHANGED <<audio, clock, ui, modelVars, editorVars>>

PreviewTimerFiresLate ==
    /\ Len(timers) < MaxTimers
    /\ \E id \in 1..Len(timers) :
          /\ timers[id].kind = "preview" /\ timers[id].state = "cleared"
          /\ Becomes(PreviewCallback(Fired(World, id), id, clock))
    /\ UNCHANGED <<audio, clock, ui, modelVars, editorVars>>

NextLateTimers == NextEngine \/ LoopTimerFiresLate \/ PreviewTimerFiresLate

SpecLateTimers == InitEngine /\ [][NextLateTimers]_vars

-----------------------------------------------------------------------------
(* scheduleProject called on its own (SpecSchedule): the exported function, *)
(* twice on the same project object with the same options.                 *)

\* The mute and solo switches of the two tracks, as onTrackUpdate sets them.
Switched(p, m1, s1, m2, s2) ==
    [p EXCEPT !.tracks[1].mute = m1, !.tracks[1].solo = s1,
              !.tracks[2].mute = m2, !.tracks[2].solo = s2]

\* onBlockDuplicate: a JSON copy of block j of track i, placed after it.
Duplicated(p, i, j) ==
    [p EXCEPT !.tracks[i].blocks =
        Append(@, [JsonBlock(p.tracks[i].blocks[j]) EXCEPT
                      !.id = p.tracks[i].blocks[j].id + 1,
                      !.startBeat = p.tracks[i].blocks[j].startBeat
                                       + p.tracks[i].blocks[j].length])]

\* The drum block of the song with a step grid that no ensureDrumPattern
\* call has converted yet.
StepGrid ==
    [EmptyObject EXCEPT !.grid = [t |-> "arr", rows |->
                                     << [t |-> "arr", cells |-> <<TRUE, FALSE>>],
                                        [t |-> "arr", cells |-> <<FALSE, TRUE>>] >>]]

Unconverted(p, i, j) == [p EXCEPT !.tracks[i].blocks[j].pattern = StepGrid]

ScheduleProjects ==
    UNION {{Switched(p, m1, s1, m2, s2),
            Duplicated(Switched(p, m1, s1, m2, s2), 2, 1),
            Unconverted(Switched(p, m1, s1, m2, s2), 2, 1)} :
              p \in EngineSongs, m1 \in BOOLEAN, s1 \in BOOLEAN,
              m2 \in BOOLEAN, s2 \in BOOLEAN}

ScheduleInputs ==
    [project : ScheduleProjects, startTime : {0, StartDelay},
     ignoreMuteSolo : BOOLEAN]

InitSchedule ==
    /\ pc = "schedule"
    /\ raw = NoProject
    /\ rawNow = NoProject
    /\ blk = NoBlock
    /\ rowsArg = NumberArg
    /\ midi = NoMidi
    /\ norm1 = NoResult
    /\ norm2 = NoResult
    /\ ens1 = NoEnsured
    /\ ens2 = NoEnsured
    /\ imported = NoProject
    /\ sched \in ScheduleInputs
    /\ passes = <<>>
    /\ MidiIdle
    /\ endBeat = 0
    /\ synthNote = NoSynthNote
    /\ EditorIdle
    /\ EngineIdle

\* scheduleProject(context, project, {startTime, ignoreMuteSolo})
Pass(args, idBase) ==
    scheduleProject(args.project, args.startTime, 0, args.ignoreMuteSolo, NoGains,
                    idBase)

SchedulePass ==
    /\ pc = "schedule"
    /\ Len(passes) < 2
    /\ passes' = Append(passes, Pass(sched, (Len(passes) + 1) * CallIdStride).onsets)
    /\ sched' = [sched EXCEPT
                    !.project = Pass(sched, (Len(passes) + 1) * CallIdStride).project]
    /\ UNCHANGED <<pc, raw, rawNow, norm1, norm2, blk, rowsArg, ens1, ens2, midi,
                   imported, bytes, fileImport, decoded, endBeat, synthNote,
                   editorVars, engineVars>>

NextSchedule == SchedulePass

SpecSchedule == InitSchedule /\ [][NextSchedule]_vars

-----------------------------------------------------------------------------
(* The transport buttons of main.js (SpecTransport): play, stop, loop, the *)
(* block preview of the open editor, the one-shot previews of its keys,   *)
(* and an edit (a track's mute switch) made while the transport runs.     *)
(* The clock reading plays no part here and is left at 0.                 *)

MaxClicks == 3

\* + 120 (ms), in microseconds
StopMargin == 120000

\* currentTime + 0.01
PreviewDelay == 10000

\* duration = 0.4
PreviewNoteLength == 400000

\* unlock(): runWithContext with an empty closure, and what it returns.
Ready(w, hasAudio) == w.engine.context \/ hasAudio

unlock(w, hasAudio) == IF Ready(w, hasAudio) THEN runWithContext(w) ELSE w

\* scheduleStopTimer: any armed timer is cleared; a new one is armed unless
\* loopEnabled.
scheduleStopTimerNever(u, p) == [u EXCEPT !.stopTimer = "none"]

scheduleStopTimer(u, p) ==
    IF u.loopEnabled THEN [u EXCEPT !.stopTimer = "none"]
    ELSE [u EXCEPT !.stopTimer = "pending",
                   !.stopAfter = BeatsToTime(getProjectEndBeat(p), p.bpm) + StopMargin]

\* restartPlayback
restartPlayback(w, loopEnabled, now, hasAudio) ==
    playProject(stop(w), loopEnabled, now, hasAudio)

\* restartPreview: the block of the open editor, looping as previewEnabled.
restartPreview(w, u, now, hasAudio) ==
    IF u.editing = 0 THEN w
    ELSE previewBlock(w, u.editing, u.previewEnabled, now, hasAudio)

\* The playBtn handler, from `isPlaying = true` on: the flags it leaves.
PlayClickedAnyway(u, ready) ==
    [u EXCEPT !.isPlaying = TRUE, !.previewEnabled = FALSE]

PlayClicked(u, ready) ==
    [u EXCEPT !.isPlaying = ready, !.previewEnabled = FALSE]

\* Observer: the count of user actions and the last of them.
Clicked(u, button) == [u EXCEPT !.clicks = @ + 1, !.last = button]

\* playBtn click
PlayClick ==
    /\ ui.clicks < MaxClicks
    /\ ~ui.isPlaying
    /\ Becomes(IF Ready(World, audio)
               THEN playProject(unlock(IF ui.previewEnabled THEN stopPreview(World)
                                       ELSE World, audio),
                                ui.loopEnabled, clock, audio)
               ELSE IF ui.previewEnabled THEN stopPreview(World) ELSE World)
    /\ ui' = Clicked(IF Ready(World, audio)
                     THEN scheduleStopTimer(PlayClicked(ui, TRUE), song)
                     ELSE PlayClicked(ui, FALSE), "play")
    /\ UNCHANGED <<audio, clock, modelVars, editorVars>>

\* stopBtn click
StopClick ==
    /\ ui.clicks < MaxClicks
    /\ Becomes(stop(World))
    /\ ui' = Clicked([ui EXCEPT !.isPlaying = FALSE, !.stopTimer = "none"], "stop")
    /\ UNCHANGED <<audio, clock, modelVars, editorVars>>

\* The callback of playbackStopTimer.
StopTimerFires ==
    /\ ui.stopTimer = "pending"
    /\ Becomes(stop(World))
    /\ ui' = [ui EXCEPT !.isPlaying = FALSE, !.stopTimer = "fired"]
    /\ UNCHANGED <<audio, clock, modelVars, editorVars>>

\* loopBtn click
LoopClick ==
    /\ ui.clicks < MaxClicks
    /\ Becomes(IF ui.isPlaying
               THEN restartPlayback(World, ~ui.loopEnabled, clock, audio)
               ELSE World)
    /\ ui' = Clicked(IF ui.isPlaying
                     THEN scheduleStopTimer([ui EXCEPT !.loopEnabled = ~@], song)
                     ELSE [ui EXCEPT !.loopEnabled = ~@], "loop")
    /\ UNCHANGED <<audio, clock, modelVars, editorVars>>

\* openEditor(trackId, blockId), from a double click on a block
EditorOpens ==
    /\ ui.clicks < MaxClicks
    /\ ui.editing = 0
    /\ \E ti \in {i \in 1..Len(song.tracks) : Len(song.tracks[i].blocks) > 0} :
          ui' = Clicked([ui EXCEPT !.editing = ti, !.previewEnabled = FALSE], "open")
    /\ Becomes(unlock(World, audio))
    /\ UNCHANGED <<audio, clock, modelVars, editorVars>>

\* closeEditor
EditorCloses ==
    /\ ui.clicks < MaxClicks
    /\ ui.editing # 0
    /\ ui' = Clicked([ui EXCEPT !.editing = 0, !.previewEnabled = FALSE], "close")
    /\ Becomes(stopPreview(World))
    /\ UNCHANGED <<audio, clock, modelVars, editorVars>>

\* previewBtn click, in the open editor
PreviewClick ==
    /\ ui.clicks < MaxClicks
    /\ ui.editing # 0
    /\ IF ui.previewEnabled
       THEN /\ ui' = Clicked([ui EXCEPT !.previewEnabled = FALSE], "preview")
            /\ Becomes(stopPreview(World))
       ELSE /\ ui' = Clicked([ui EXCEPT !.previewEnabled = Ready(World, audio)], "preview")
            /\ Becomes(IF Ready(World, audio)
                       THEN restartPreview(unlock(World, audio),
                                           [ui EXCEPT !.previewEnabled = TRUE],
                                           clock, audio)
                       ELSE World)
    /\ UNCHANGED <<audio, clock, modelVars, editorVars>>

\* previewNote(track, pitch): one voice on the preview bus, or on the
\* master when there is none, 10 ms from now.
previewNote(w, ti, pitch, now) ==
    [runWithContext(w) EXCEPT
        !.played = Logged(runWithContext(w), "note", 0, now, now + PreviewDelay,
                          PreviewNoteLength, ti,
                          {[track |-> w.song.tracks[ti].id, at |-> now + PreviewDelay,
                            duration |-> PreviewNoteLength,
                            voice |-> pitch + w.song.tracks[ti].octave * 12]},
                          w.engine.previewBus)]

\* previewDrum(track, drum, level)
previewDrum(w, ti, drum, now) ==
    [runWithContext(w) EXCEPT
        !.played = Logged(runWithContext(w), "drum", 0, now, now + PreviewDelay,
                          0, ti,
                          {[track |-> w.song.tracks[ti].id, at |-> now + PreviewDelay,
                            duration |-> 0, voice |-> drum]},
                          w.engine.previewBus)]

\* onPreviewNote: a key of the piano roll is pressed.
PreviewNote ==
    /\ ui.clicks < MaxClicks
    /\ ui.editing # 0
    /\ song.tracks[ui.editing].type = "synth"
    /\ Becomes(IF Ready(World, audio)
               THEN previewNote(unlock(World, audio), ui.editing, 60, clock)
               ELSE World)
    /\ ui' = Clicked(ui, "note")
    /\ UNCHANGED <<audio, clock, modelVars, editorVars>>

\* onPreview: a row label of the drum editor is pressed.
PreviewDrum ==
    /\ ui.clicks < MaxClicks
    /\ ui.editing # 0
    /\ song.tracks[ui.editing].type # "synth"
    /\ Becomes(IF Ready(World, audio)
               THEN previewDrum(unlock(World, audio), ui.editing, "kick", clock)
               ELSE World)
    /\ ui' = Clicked(ui, "drum")
    /\ UNCHANGED <<audio, clock, modelVars, editorVars>>

\* onTrackChange(trackId, {mute}) and its commitChange: the editor is
\* refreshed when the track is the one it shows, which restarts a running
\* preview, and a running playback is restarted.
Muted(w, ti) == [w EXCEPT !.song.tracks[ti].mute = ~@]

Refreshed(w, u, ti, now, hasAudio) ==
    IF u.editing = ti /\ u.previewEnabled
    THEN restartPreview(w, u, now, hasAudio) ELSE w

MuteClick ==
    /\ ui.clicks < MaxClicks
    /\ \E ti \in 1..2 :
          /\ Becomes(IF ui.isPlaying
                     THEN restartPlayback(Refreshed(Muted(World, ti), ui, ti, clock,
                                                    audio),
                                          ui.loopEnabled, clock, audio)
                     ELSE Refreshed(Muted(World, ti), ui, ti, clock, audio))
          /\ ui' = Clicked(IF ui.isPlaying
                           THEN scheduleStopTimer(ui, Muted(World, ti).song)
                           ELSE ui, "mute")
    /\ UNCHANGED <<audio, clock, modelVars, editorVars>>

\* The promise of context.resume() is fulfilled: the clock runs.
ResumeCompletes ==
    /\ ctx.state = "suspended" /\ ctx.resuming
    /\ ctx' = [ctx EXCEPT !.state = "running", !.resuming = FALSE]
    /\ UNCHANGED <<song, audio, clock, engine, timers, buses, played, ui, modelVars,
                   editorVars>>

InitTransport ==
    /\ song \in EngineSongs
    /\ audio \in BOOLEAN
    /\ clock = 0
    /\ engine = NewEngine
    /\ timers = <<>>
    /\ buses = <<>>
    /\ played = <<>>
    /\ ctx \in {[NoContext EXCEPT !.starts = st] :
                    st \in IF audio THEN {"running", "suspended"} ELSE {"running"}}
    /\ ui = NoUi
    /\ ModelIdle
    /\ EditorIdle

NextTransport ==
    \/ PlayClick \/ StopClick \/ LoopClick \/ StopTimerFires
    \/ EditorOpens \/ EditorCloses \/ PreviewClick \/ PreviewNote \/ PreviewDrum
    \/ MuteClick \/ LoopTimerFires \/ PreviewTimerFires \/ ResumeCompletes

SpecTransport == InitTransport /\ [][NextTransport]_vars

\* A pending window timer fires in the end.
SpecTransportFair == SpecTransport /\ WF_vars(StopTimerFires)

-----------------------------------------------------------------------------
(* Properties of the transport *)

\* The iterations scheduled into bus b, in the order of their scheduling.
IterationsOf(b) == SelectSeq(played, LAMBDA it : it.bus = b)

Shifted(onsets, d) == {[o EXCEPT !.at = @ + d] : o \in onsets}

\* The length of one iteration: the whole project for playProject, the
\* previewed block for previewBlock.
LoopLength(it) ==
    IF it.kind = "play" THEN BeatsToTime(getProjectEndBeat(song), song.bpm)
    ELSE BeatsToTime(song.tracks[it.track].blocks[1].length, song.bpm)

\* C1: in a playback (or block preview) session, the k-th iteration after
\* the first is scheduled to start exactly k loop lengths after the first,
\* so its onsets are those of the iteration before it moved by one loop
\* length, whatever the clock readings at which the timer callbacks ran.
C1_IterationsOnTheGrid ==
    \A b \in 1..Len(buses) :
        \A k \in 1..Len(IterationsOf(b)) :
            /\ IterationsOf(b)[k].duration = LoopLength(IterationsOf(b)[k])
            /\ IterationsOf(b)[k].start =
                   IterationsOf(b)[1].start + (k - 1) * LoopLength(IterationsOf(b)[1])
            /\ k > 1 => IterationsOf(b)[k].onsets =
                            Shifted(IterationsOf(b)[k - 1].onsets,
                                    LoopLength(IterationsOf(b)[1]))

\* A looping playback whose second iteration was scheduled after its own
\* start had passed and whose third was scheduled ahead of its start.
C1_Witness ==
    \E b \in 1..Len(buses) :
        /\ Len(IterationsOf(b)) >= 3
        /\ IterationsOf(b)[1].kind = "play"
        /\ IterationsOf(b)[1].onsets # {}
        /\ IterationsOf(b)[2].at > IterationsOf(b)[2].start
        /\ IterationsOf(b)[3].at < IterationsOf(b)[3].start

\* C2: no iteration is ever scheduled, into any bus, by the callback of a
\* timer that was armed before a stop() (loop timer) or a stopPreview()
\* (preview timer) that has completed, even when that callback still runs.
C2_StoppedCallbacksScheduleNothing ==
    \A k \in 1..Len(played) : ~played[k].stale

\* C3: while playback runs, every track of the project has an output, and
\* the target of its gain is 0 when the track is muted or soloed out and
\* the track's volume otherwise.
C3_GainFollowsMuteSolo ==
    engine.isPlaying =>
        \A i \in 1..Len(song.tracks) :
            /\ song.tracks[i].id \in DOMAIN engine.trackGains
            /\ engine.trackGains[song.tracks[i].id].target =
                   (IF \/ song.tracks[i].mute
                       \/ /\ \E j \in 1..Len(song.tracks) : song.tracks[j].solo
                          /\ ~song.tracks[i].solo
                    THEN 0 ELSE song.tracks[i].volume)

-----------------------------------------------------------------------------
(* Properties of the data model and of the editor session *)

\* The events of a block's drum pattern (none when it has no events array).
DrumEvents(block) ==
    IF block.pattern.events.t = "arr" THEN block.pattern.events.items ELSE <<>>

DrumTracks(p) == {i \in 1..Len(p.tracks) : p.tracks[i].type = "drums"}

\* C4: normalizeProject never fails: whatever value the parsed input is,
\* the call returns a project and does not raise.
C4_NormalizeProjectNeverFails == pc = "normalized" => ~norm1.threw

\* C5: after the editor's console change on a drum track, every block of
\* the track is reconciled to the new console's kit: no event is left whose
\* drum the new kit lacks, and every event whose drum both kits have is
\* still there.
C5_ConsoleChangeReconcilesKit ==
    LET ti == FindTrack(Live, lastOp.track)
        oldKit == SeqToSet(getDrumRowsForConsole(lastOp.prev.console))
        newKit == SeqToSet(getDrumRowsForConsole(Live.tracks[ti].console))
    IN (/\ lastOp.op = "console"
        /\ lastOp.prev.type = "drums"
        /\ lastOp.prev.console # Live.tracks[ti].console)
       => \A j \in 1..Len(Live.tracks[ti].blocks) :
             /\ \A e \in SeqToSet(DrumEvents(Live.tracks[ti].blocks[j])) :
                   e.drum \in newKit
             /\ \A e \in SeqToSet(DrumEvents(lastOp.prev.blocks[j])) :
                   e.drum \in oldKit \cap newKit
                      => e \in SeqToSet(DrumEvents(Live.tracks[ti].blocks[j]))

\* C6: round trip: for the live project P of the editor,
\* normalizeProject(JSON.parse(JSON.stringify(normalizeProject(P)))) equals
\* normalizeProject(P).
C6_RoundTripKeepsProject ==
    pointer # "none" =>
        normalizeProject(JsonClone(normalizeProject(Live, nextId).project),
                         nextId).project
            = normalizeProject(Live, nextId).project

\* C7: ensureDrumPattern is idempotent: a second call with the same rows on
\* the block the first call returned leaves the same pattern (rows, events
\* with their ids and fields in order, volumes).
C7_EnsureDrumPatternIdempotent ==
    pc = "ensured2" => (~ens2.threw /\ ens2.block = ens1.block)

\* The second call ran on a pattern that came from a legacy grid or lost an
\* event to the rows, and that holds an event whose id the first call drew.
C7_Witness ==
    /\ pc = "ensured2"
    /\ \/ blk.pattern.events.t = "absent"
       \/ Len(DrumEvents(ens1.block)) < Len(DrumEvents(blk))
    /\ \E k \in 1..Len(DrumEvents(ens1.block)) :
          DrumEvents(ens1.block)[k].id >= FirstCall

\* C8: every track of the editor's live project, whatever operation made
\* it, has a waveform of its console's waveform set.
C8_WaveformOfConsole ==
    pointer # "none" =>
        \A i \in 1..Len(Live.tracks) :
            Live.tracks[i].waveform \in SeqToSet(CONSOLE_WAVES[Live.tracks[i].console])

\* A drum pattern that ensureDrumPattern has run on: it holds rows.
EnsuredBlocks(track) ==
    {j \in 1..Len(track.blocks) : track.blocks[j].pattern.rows.t = "arr"}

DrumsInRows(track) ==
    \A j \in EnsuredBlocks(track) :
        \A e \in SeqToSet(DrumEvents(track.blocks[j])) :
            e.drum \in SeqToSet(track.blocks[j].pattern.rows.items)

\* C9: in every drum pattern that ensureDrumPattern has run on, after any
\* drum-editor operation (toggle, drag to another row, resize) and after a
\* MIDI import, every event's drum is one of the pattern's rows.
C9_EventDrumsAreRows ==
    /\ pointer # "none" => \A i \in DrumTracks(Live) : DrumsInRows(Live.tracks[i])
    /\ pc = "imported" =>
          \A i \in DrumTracks(imported) : DrumsInRows(imported.tracks[i])
    /\ (pc \in {"ensured", "ensured2"} /\ ~ens1.threw) =>
          \A e \in SeqToSet(DrumEvents(ens1.block)) :
              e.drum \in SeqToSet(ens1.block.pattern.rows.items)

\* A hit was dragged to another row of a kit that is not the default one.
C9_Witness ==
    /\ lastOp.op = "dragMove"
    /\ \E i \in DrumTracks(Live) :
          /\ Live.tracks[i].id = activeTrackId
          /\ Live.tracks[i].console = "C64"
          /\ \E j \in EnsuredBlocks(Live.tracks[i]) :
                \E e \in SeqToSet(DrumEvents(Live.tracks[i].blocks[j])) :
                    e.drum = "tom"

\* C10: no stored history snapshot aliases the live project: whatever was
\* pushed, undone, redone or reset, and however the live project was
\* changed in place since, every snapshot holds what it held when stored.
C10_SnapshotsUnchanged ==
    \A i \in 1..Len(stack) : heap[stack[i]] = stored[i] /\ stack[i] # project

\* The live project was changed in place, uncommitted, after it had been
\* pushed: no snapshot of the stack holds what the live project holds now.
C10_Witness ==
    /\ lastOp.op \in {"dragMove", "resizeMove"}
    /\ Len(stack) >= 2
    /\ \A i \in 1..Len(stack) : heap[stack[i]] # Live

\* C11: normalizeProject leaves the value it was handed as it was, and so
\* does every later edit of the project it returned.
C11_RawUntouched == pc \in {"normalized", "edited"} => rawNow = raw

TrackCountInRange(p) == Len(p.tracks) >= 1 /\ Len(p.tracks) <= MAX_TRACKS

\* C12: the live project of the editor session, whatever tracks were added
\* and deleted and whatever was undone, redone and loaded, and the project
\* that buildProjectFromMidi returns, have between 1 and MAX_TRACKS tracks.
C12_TrackCountInRange ==
    /\ pointer # "none" => TrackCountInRange(Live)
    /\ pc = "imported" => TrackCountInRange(imported)

\* C13: the tempo of the editor session's live project, whatever was typed
\* into the tempo field, loaded, undone and redone, and the tempo of the
\* project that buildProjectFromMidi returns, lie in 40..240.
C13_TempoInRange ==
    /\ pointer # "none" => Live.bpm \in 40..240
    /\ pc = "imported" => imported.bpm \in 40..240

-----------------------------------------------------------------------------
(* Properties of a scheduleProject call *)

\* The tracks the call is to schedule: all of them with ignoreMuteSolo,
\* else the ones that are not muted and, when a track is soloed, soloed.
Audible(args, track) ==
    \/ args.ignoreMuteSolo
    \/ /\ ~track.mute
       /\ \/ track.solo
          \/ \A i \in 1..Len(args.project.tracks) : ~args.project.tracks[i].solo

\* The notes and hits of track i, each with the block it lies in.
EventsOf(track) ==
    UNION {IF track.type = "synth"
           THEN {[block |-> track.blocks[j], event |-> track.blocks[j].notes[k],
                  voice |-> track.blocks[j].notes[k].pitch + track.octave * 12] :
                     k \in 1..Len(track.blocks[j].notes)}
           ELSE {[block |-> track.blocks[j],
                  event |-> track.blocks[j].pattern.events.items[k],
                  voice |-> track.blocks[j].pattern.events.items[k].drum] :
                     k \in 1..Len(track.blocks[j].pattern.events.items)} :
              j \in 1..Len(track.blocks)}

Offending(event) == event.duration <= 0 \/ event.velocity <= 0

\* Where the note or hit x of a track is due in a pass that starts at
\* startTime, the block's startBeat counted as offsetBeat.
OnsetTime(x, offsetBeat, bpm, startTime) ==
    startTime + ((offsetBeat + x.event.start) * 60000) \div bpm

ScheduledIn(onsets, id, x, bpm, startTime) ==
    \E o \in onsets : /\ o.track = id
                       /\ o.voice = x.voice
                       /\ o.at = OnsetTime(x, x.block.startBeat, bpm, startTime)

\* C14: in a scheduleProject pass a note or hit without a positive duration
\* or a positive velocity is dropped, nothing being scheduled for it, and
\* every other note or hit of the scheduled tracks is scheduled.
C14_OffendingDropped ==
    Len(passes) >= 1 =>
        \A i \in 1..Len(sched.project.tracks) :
            Audible(sched, sched.project.tracks[i]) =>
                \A x \in EventsOf(sched.project.tracks[i]) :
                    ScheduledIn(passes[1], sched.project.tracks[i].id, x,
                                sched.project.bpm, sched.startTime)
                        <=> ~Offending(x.event)

\* C15: with ignoreMuteSolo false a pass schedules the events of a track if
\* and only if the track is not muted and, when some track is soloed, is
\* itself soloed; with ignoreMuteSolo true it schedules every track (that
\* has events at all).
C15_MuteSoloFilter ==
    Len(passes) >= 1 =>
        \A i \in 1..Len(sched.project.tracks) :
            (\E o \in passes[1] : o.track = sched.project.tracks[i].id)
                <=> /\ EventsOf(sched.project.tracks[i]) # {}
                    /\ IF sched.ignoreMuteSolo THEN TRUE
                       ELSE /\ ~sched.project.tracks[i].mute
                            /\ (\E n \in 1..Len(sched.project.tracks) :
                                    sched.project.tracks[n].solo)
                                   => sched.project.tracks[i].solo

\* A pass without ignoreMuteSolo over a project with a soloed track and an
\* unmuted, unsoloed one: only the soloed track is scheduled.
C15_Witness ==
    /\ Len(passes) >= 1
    /\ ~sched.ignoreMuteSolo
    /\ sched.project.tracks[1].solo /\ ~sched.project.tracks[1].mute
    /\ ~sched.project.tracks[2].solo /\ ~sched.project.tracks[2].mute
    /\ passes[1] # {}
    /\ \A o \in passes[1] : o.track = sched.project.tracks[1].id

\* C17: two scheduleProject calls on the same project with the same
\* startTime and options schedule the same set of (onset, duration,
\* frequency or drum) tuples, also when the first call is the one that
\* turns a block's step grid into events.
C17_SameScheduleTwice ==
    Len(passes) = 2 => passes[2] = passes[1]

\* Two passes were made, and the hits of the drum block carry ids drawn in
\* the first: that call converted the block's grid, and scheduled the hits.
C17_Witness ==
    /\ Len(passes) = 2
    /\ \E k \in 1..Len(sched.project.tracks[2].blocks[1].pattern.events.items) :
          /\ sched.project.tracks[2].blocks[1].pattern.events.items[k].id > FirstCall
          /\ sched.project.tracks[2].blocks[1].pattern.events.items[k].id < SecondCall
    /\ \E o \in passes[1] : o.track = sched.project.tracks[2].id

-----------------------------------------------------------------------------
(* Onset times in the transport *)

\* The tracks an iteration covers: the whole song, or the previewed track.
TracksOf(it) == IF it.kind = "play" THEN 1..Len(song.tracks) ELSE {it.track}

\* The notes and hits an iteration covers, and the beat their start counts
\* from: the block's startBeat in the song, 0 in a preview of the block.
CoveredBy(it, i) ==
    IF it.kind = "play" THEN EventsOf(song.tracks[i])
    ELSE {x \in EventsOf(song.tracks[i]) : x.block.id = song.tracks[i].blocks[1].id}

OffsetBeat(it, x) == IF it.kind = "play" THEN x.block.startBeat ELSE 0

\* C16: every note or hit a playProject iteration (a scheduleProject call)
\* schedules has its onset at startTime + (block.startBeat + event.start) *
\* 60 / bpm, and in a previewBlock iteration at loopStart + event.start *
\* 60 / bpm, the block's startBeat counting as 0; every note or hit with a
\* positive duration and velocity is scheduled there.
C16_OnsetTimes ==
    \A n \in 1..Len(played) :
        /\ \A o \in played[n].onsets :
              \E i \in TracksOf(played[n]) :
                 \E x \in CoveredBy(played[n], i) :
                    /\ o.track = song.tracks[i].id
                    /\ o.voice = x.voice
                    /\ o.at = OnsetTime(x, OffsetBeat(played[n], x), song.bpm,
                                        played[n].start)
        /\ \A i \in TracksOf(played[n]) :
              \A x \in CoveredBy(played[n], i) :
                 ~Offending(x.event) =>
                    \E o \in played[n].onsets :
                       /\ o.track = song.tracks[i].id
                       /\ o.voice = x.voice
                       /\ o.at = OnsetTime(x, OffsetBeat(played[n], x), song.bpm,
                                           played[n].start)

\* A song at 240 bpm was played and its drum block, which starts at beat 2,
\* was previewed: hits were scheduled in both.
C16_Witness ==
    /\ song.bpm = 240
    /\ \E n \in 1..Len(played) :
          /\ played[n].kind = "play"
          /\ \E o \in played[n].onsets : o.voice = "kick"
    /\ \E n \in 1..Len(played) :
          /\ played[n].kind = "preview"
          /\ song.tracks[played[n].track].blocks[1].startBeat > 0
          /\ \E o \in played[n].onsets : o.voice = "kick"

-----------------------------------------------------------------------------
(* Properties of the transport buttons *)

TransportStopped == ~ui.isPlaying /\ ~engine.isPlaying /\ engine.playBus = 0

\* C18: while a playback started without loop is on, a stop timer is armed
\* whose delay is the project's length in seconds (plus 120 ms), and while
\* a looping one is on, none is; and from a non-looping playback the
\* transport comes to Stopped (UI flag false, engine not playing, play bus
\* released) unless the user acts before.
C18_StopTimerStops ==
    /\ [](ui.isPlaying =>
             IF ui.loopEnabled THEN ui.stopTimer # "pending"
             ELSE /\ ui.stopTimer = "pending"
                  /\ ui.stopAfter = (getProjectEndBeat(song) * 60000) \div song.bpm
                                       + 120000)
    /\ \A c \in 0..MaxClicks :
          (ui.isPlaying /\ ~ui.loopEnabled /\ ui.clicks = c)
              ~> (TransportStopped \/ ui.clicks > c)

\* The stop timer of a non-looping playback has fired: what was scheduled
\* went into a bus that is released now.
C18_Witness ==
    /\ ui.stopTimer = "fired"
    /\ TransportStopped
    /\ ~ui.loopEnabled
    /\ \E n \in 1..Len(played) :
          /\ played[n].kind = "play"
          /\ buses[played[n].bus] = "released"

\* C19: no note or hit is put on the audio clock while the context is
\* suspended: whatever playProject, previewBlock, previewNote or previewDrum
\* schedule, they schedule with the context running.
C19_NothingScheduledSuspended ==
    \A n \in 1..Len(played) : played[n].onsets # {} => ~played[n].suspended

\* C20: on a browser without an AudioContext class unlock() returns false,
\* nothing is ever scheduled, no context, bus or timer is made, the engine
\* stays as constructed and the UI flags isPlaying and previewEnabled stay
\* false, whatever buttons are pressed; and an edit can still be made.
C20_SilentWithoutAudio ==
    ~audio =>
        /\ ~Ready(World, audio)
        /\ played = <<>> /\ buses = <<>> /\ timers = <<>>
        /\ engine = NewEngine
        /\ ctx.state = "none"
        /\ ~ui.isPlaying /\ ~ui.previewEnabled /\ ui.stopTimer = "none"
        /\ ui.clicks < MaxClicks => ENABLED MuteClick

\* Without audio: the editor was opened, the second track was muted (no
\* song starts with it muted), and play was clicked last.
C20_Witness ==
    /\ ~audio
    /\ ui.editing # 0
    /\ song.tracks[2].mute
    /\ ui.last = "play"

-----------------------------------------------------------------------------
(* Playback and preview side by side *)

\* What a preview call has to leave alone of a running playback.
PlaybackKept ==
    /\ engine'.isPlaying
    /\ engine'.loop = engine.loop
    /\ engine'.playBus = engine.playBus
    /\ buses'[engine.playBus] = buses[engine.playBus]
    /\ engine'.trackGains = engine.trackGains
    /\ engine'.loopTimer = engine.loopTimer
    /\ engine.loopTimer # 0 => timers'[engine.loopTimer] = timers[engine.loopTimer]
    /\ engine'.playStartTime = engine.playStartTime
    /\ engine'.playDuration = engine.playDuration
    /\ engine'.previewBus # 0 => engine'.previewBus # engine'.playBus

\* C21: a previewBlock or stopPreview call made while the engine is playing
\* leaves isPlaying true and the play bus, the track gain map and the
\* pending loop timer as they were, and the preview has a bus of its own.
C21_PreviewLeavesPlayback ==
    [][(engine.isPlaying /\ engine.playBus # 0 /\ (PreviewBlock \/ StopPreview))
          => PlaybackKept]_vars

\* A looping playback with its loop timer pending, and a looping preview
\* started after it, each in a live bus of its own.
C21_Witness ==
    /\ engine.isPlaying /\ engine.loop
    /\ engine.loopTimer # 0 /\ timers[engine.loopTimer].state = "pending"
    /\ engine.playBus # 0 /\ buses[engine.playBus] = "live"
    /\ engine.previewBus # 0 /\ buses[engine.previewBus] = "live"
    /\ \E n \in 2..Len(played) :
          played[n].kind = "preview" /\ played[n - 1].kind = "play"

-----------------------------------------------------------------------------
(* The playhead: getCurrentBeat(bpm), in 1/1000 beat.  secondsPerBeat is   *)
(* 60000 \div bpm microseconds for 1/1000 beat.                            *)

\* A playhead that is not wrapped.
getCurrentBeatUnwrapped(e, now, bpm) ==
    IF ~e.isPlaying \/ ~e.context THEN 0
    ELSE IF now - e.playStartTime < 0 THEN 0
    ELSE (now - e.playStartTime) \div (60000 \div bpm)

getCurrentBeat(e, now, bpm) ==
    IF ~e.isPlaying \/ ~e.context THEN 0
    ELSE IF now - e.playStartTime < 0 THEN 0
    ELSE IF e.loop /\ e.playDuration > 0
         THEN ((now - e.playStartTime) \div (60000 \div bpm))
                  % (e.playDuration \div (60000 \div bpm))
         ELSE (now - e.playStartTime) \div (60000 \div bpm)

\* C22: getCurrentBeat(bpm) is 0 when the engine is not playing or the
\* clock is before playStartTime; else it is the time since playStartTime
\* in beats, taken modulo the project's length in beats when looping, and
\* then it lies in [0, getProjectEndBeat(project)).
C22_PlayheadInTheLoop ==
    /\ (~engine.isPlaying \/ clock < engine.playStartTime)
           => getCurrentBeat(engine, clock, song.bpm) = 0
    /\ (engine.isPlaying /\ clock >= engine.playStartTime /\ ~engine.loop)
           => getCurrentBeat(engine, clock, song.bpm)
                  = ((clock - engine.playStartTime) * song.bpm) \div 60000
    /\ (engine.isPlaying /\ clock >= engine.playStartTime /\ engine.loop)
           => /\ getCurrentBeat(engine, clock, song.bpm)
                    = (((clock - engine.playStartTime) * song.bpm) \div 60000)
                          % getProjectEndBeat(song)
              /\ getCurrentBeat(engine, clock, song.bpm) >= 0
              /\ getCurrentBeat(engine, clock, song.bpm) < getProjectEndBeat(song)

\* A looping playback that has run for longer than the project lasts: the
\* playhead has wrapped.
C22_Witness ==
    /\ engine.isPlaying /\ engine.loop
    /\ clock - engine.playStartTime > engine.playDuration
    /\ getCurrentBeat(engine, clock, song.bpm) > 0
    /\ getCurrentBeat(engine, clock, song.bpm)
           < ((clock - engine.playStartTime) * song.bpm) \div 60000

-----------------------------------------------------------------------------
(* The MIDI file reader of midiImport.js (SpecMidi).  A file is the       *)
(* sequence of its bytes; data[offset] of the source is ByteAt(data,      *)
(* offset), which is undefined past the end of the file.                  *)

Undefined == 0 - 1

Null == 0 - 2

ByteAt(data, offset) ==
    IF offset >= 0 /\ offset < Len(data) THEN data[offset + 1] ELSE Undefined

\* The operand of <<, | and & that a byte read gives: undefined counts as 0.
ToInt(b) == IF b < 0 THEN 0 ELSE b

\* x << 7 of a 32-bit integer x: bits 0..24 of x move up, bit 24 becomes the
\* sign, and the bits above are lost.
ShiftLeft7(x) ==
    IF x % 33554432 >= 16777216 THEN ((x % 33554432) - 33554432) * 128
    ELSE (x % 33554432) * 128

\* The index subarray(begin, end) makes of one of its arguments: negative
\* ones count from the end, and both are kept inside the array.
SubarrayIndex(i, n) == IF i < 0 THEN Max(n + i, 0) ELSE Min(i, n)

\* The decoder maps equal bytes to equal characters, so a string is the
\* sequence of the bytes it was decoded from.
readString(data, offset, length) ==
    SubSeq(data, SubarrayIndex(offset, Len(data)) + 1,
           SubarrayIndex(offset + length, Len(data)))

MThd == <<77, 84, 104, 100>>

MTrk == <<77, 84, 114, 107>>

\* The four bytes as a 32-bit integer: a first byte of 0x80 or more makes
\* it negative.
readUint32(data, offset) ==
    (IF ToInt(ByteAt(data, offset)) >= 128
     THEN ToInt(ByteAt(data, offset)) - 256
     ELSE ToInt(ByteAt(data, offset))) * 16777216
        + ToInt(ByteAt(data, offset + 1)) * 65536
        + ToInt(ByteAt(data, offset + 2)) * 256
        + ToInt(ByteAt(data, offset + 3))

readUint16(data, offset) ==
    ToInt(ByteAt(data, offset)) * 256 + ToInt(ByteAt(data, offset + 1))

\* The while loop of readVarInt, entered at position with result so far.
RECURSIVE readVarIntLoop(_, _, _)
readVarIntLoop(data, position, result) ==
    IF position < Len(data)
    THEN LET byte == ByteAt(data, position)
             shifted == ShiftLeft7(result) + (ToInt(byte) % 128)
         IN IF byte < 128
            THEN [value |-> shifted, next |-> position + 1]
            ELSE readVarIntLoop(data, position + 1, shifted)
    ELSE [value |-> result, next |-> position]

\* A reader of the low seven bits of one byte.
readVarIntOneByte(data, offset) ==
    [value |-> ToInt(ByteAt(data, offset)) % 128, next |-> offset + 1]

readVarInt(data, offset) == readVarIntLoop(data, offset, 0)

\* openNotes after push({start, velocity}) on the stack of key.
Opening(open, key, tick, velocity) ==
    [k \in DOMAIN open \cup {key} |->
        IF k = key
        THEN Append(IF key \in DOMAIN open THEN open[key] ELSE <<>>,
                    [start |-> tick, velocity |-> velocity])
        ELSE open[k]]

\* A closing event that takes the note of key opened last.
ClosingNewest(st, key, tick) ==
    IF key \in DOMAIN st.open /\ Len(st.open[key]) > 0
    THEN [st EXCEPT
             !.open[key] = SubSeq(@, 1, Len(@) - 1),
             !.notes = Append(@, [channel |-> key[1], note |-> key[2],
                                  start |-> st.open[key][Len(st.open[key])].start,
                                  end |-> tick,
                                  velocity |-> st.open[key][Len(st.open[key])].velocity])]
    ELSE st

\* The closing event of key at tick: stack.shift() takes the note that was
\* opened first, and nothing happens when no note of the key is open.
Closing(st, key, tick) ==
    IF key \in DOMAIN st.open /\ Len(st.open[key]) > 0
    THEN [st EXCEPT
             !.open[key] = Tail(@),
             !.notes = Append(@, [channel |-> key[1], note |-> key[2],
                                  start |-> st.open[key][1].start,
                                  end |-> tick,
                                  velocity |-> st.open[key][1].velocity])]
    ELSE st

\* One event whose status byte is status and whose data starts at offset at:
\* a meta event (the tempo one is read), a system exclusive one (skipped), or
\* a channel message.
readEvent(data, st, status, at) ==
    IF status = 255
    THEN LET metaType == ByteAt(data, at)
             lengthInfo == readVarInt(data, at + 1)
         IN [st EXCEPT
                !.tempo = IF metaType = 81 /\ lengthInfo.value = 3
                          THEN ToInt(ByteAt(data, lengthInfo.next)) * 65536
                               + ToInt(ByteAt(data, lengthInfo.next + 1)) * 256
                               + ToInt(ByteAt(data, lengthInfo.next + 2))
                          ELSE @,
                !.offset = lengthInfo.next + lengthInfo.value]
    ELSE IF status = 240 \/ status = 247
    THEN LET lengthInfo == readVarInt(data, at)
         IN [st EXCEPT !.offset = lengthInfo.next + lengthInfo.value]
    ELSE LET eventType == (ToInt(status) \div 16) * 16
             channel == ToInt(status) % 16
             param1 == ByteAt(data, at)
             one == eventType = 192 \/ eventType = 208
             param2 == IF one THEN Null ELSE ByteAt(data, at + 1)
             moved == [st EXCEPT !.offset = IF one THEN at + 1 ELSE at + 2]
             key == <<channel, param1>>
         IN IF eventType = 144 /\ param2 > 0
            THEN [moved EXCEPT !.open = Opening(@, key, st.tick, param2)]
            ELSE IF eventType = 128 \/ (eventType = 144 /\ param2 = 0)
            THEN Closing(moved, key, st.tick)
            ELSE moved

\* The while loop over the events of one chunk.  A data byte where a status
\* byte is due, with no running status, ends the chunk's loop.
RECURSIVE readEvents(_, _, _)
readEvents(data, trackEnd, st) ==
    IF st.offset >= trackEnd THEN st
    ELSE LET delta == readVarInt(data, st.offset)
             first == ByteAt(data, delta.next)
             running == first # Undefined /\ first < 128
             ticked == [st EXCEPT !.tick = @ + delta.value, !.offset = delta.next]
         IN IF running /\ st.runningStatus = Null THEN ticked
            ELSE IF running
            THEN readEvents(data, trackEnd,
                            readEvent(data, ticked, st.runningStatus, delta.next))
            ELSE readEvents(data, trackEnd,
                            readEvent(data, [ticked EXCEPT !.runningStatus = first],
                                      first, delta.next + 1))

\* The for loop over the chunks the header counts, from the chunk at offset.
RECURSIVE readChunks(_, _, _, _, _)
readChunks(data, offset, remaining, tempo, tracks) ==
    IF remaining = 0
    THEN [threw |-> FALSE, error |-> "", tempo |-> tempo, tracks |-> tracks]
    ELSE IF readString(data, offset, 4) # MTrk
    THEN [threw |-> TRUE, error |-> "Invalid track header", tempo |-> tempo,
          tracks |-> <<>>]
    ELSE LET trackEnd == offset + 8 + readUint32(data, offset + 4)
             done == readEvents(data, trackEnd,
                                [offset |-> offset + 8, tick |-> 0,
                                 runningStatus |-> Null, notes |-> <<>>,
                                 open |-> <<>>, tempo |-> tempo])
         IN readChunks(data, trackEnd, remaining - 1, done.tempo,
                       Append(tracks, done.notes))

parseMidi(data) ==
    IF readString(data, 0, 4) # MThd
    THEN [threw |-> TRUE, error |-> "Invalid MIDI header", midi |-> NoFile]
    ELSE LET headerLength == readUint32(data, 4)
             division == readUint16(data, 12)
             chunks == readChunks(data, 8 + headerLength, readUint16(data, 10),
                                  500000, <<>>)
         IN [threw |-> chunks.threw, error |-> chunks.error,
             midi |-> IF chunks.threw THEN NoFile
                      ELSE [format |-> readUint16(data, 8),
                            ppq |-> IF division >= 32768 THEN 480 ELSE division,
                            tempo |-> chunks.tempo,
                            tracks |-> chunks.tracks]]

\* An import that builds a project from whatever the parser holds.
importMidiFilePartial(data, idBase) ==
    [threw |-> parseMidi(data).threw, error |-> parseMidi(data).error,
     midi |-> parseMidi(data).midi,
     project |-> buildProjectFromMidi(parseMidi(data).midi, idBase)]

\* importMidiFile(file): an error thrown by parseMidi rejects the promise,
\* and no project is built.
importMidiFile(data, idBase) ==
    LET file == parseMidi(data)
    IN [threw |-> file.threw, error |-> file.error, midi |-> file.midi,
        project |-> IF file.threw THEN NoProject
                    ELSE buildProjectFromMidi(file.midi, idBase)]

\* ---- the files handed to importMidiFile ----

\* A delta time below 16384 as a variable-length quantity.
Quantity(n) == IF n < 128 THEN <<n>> ELSE <<128 + n \div 128, n % 128>>

NoteOnEvent(delta, channel, pitch, velocity) ==
    Quantity(delta) \o <<144 + channel, pitch, velocity>>

NoteOffEvent(delta, channel, pitch) ==
    Quantity(delta) \o <<128 + channel, pitch, 64>>

\* FF 51 03 tttttt: 250000 microseconds per quarter note.
SetTempoEvent == <<0, 255, 81, 3, 3, 208, 144>>

EndOfTrackEvent == <<0, 255, 47, 0>>

\* One note, closed by a Note-On of velocity 0.
PairBody ==
    NoteOnEvent(0, 0, 60, 100) \o NoteOnEvent(480, 0, 60, 0) \o EndOfTrackEvent

\* Two notes of one key open at once, then two Note-Offs.
OverlapBody ==
    NoteOnEvent(0, 0, 60, 100) \o NoteOnEvent(120, 0, 60, 50)
        \o NoteOffEvent(120, 0, 60) \o NoteOffEvent(240, 0, 60)

\* A Note-Off with nothing open, a note that is never closed, and a note of
\* channel 1 closed under running status.
DanglingBody ==
    NoteOffEvent(0, 0, 62) \o NoteOnEvent(0, 0, 62, 80)
        \o NoteOnEvent(240, 1, 64, 90) \o Quantity(240) \o <<64, 0>>

\* A tempo and one hit of the percussion channel.
DrumBody ==
    SetTempoEvent \o NoteOnEvent(0, 9, 36, 127) \o NoteOffEvent(96, 9, 36)

\* A data byte where the first status byte is due.
StrayBody == <<0, 60, 100>> \o NoteOnEvent(0, 0, 60, 100)

ChunkBodies == {<<>>, PairBody, OverlapBody, DanglingBody, DrumBody, StrayBody}

\* "MThx" and "MTrx": signatures one letter off.
BadMThd == <<77, 84, 104, 120>>

BadMTrk == <<77, 84, 114, 120>>

HeaderChunk(signature, trackCount, division) ==
    signature \o <<0, 0, 0, 6, 0, 1, 0, trackCount,
                   division \div 256, division % 256>>

TrackChunk(signature, body) == signature \o <<0, 0, 0, Len(body)>> \o body

\* Ticks per quarter note of the headers: two usual ones, none, and an SMPTE
\* division (top bit set).
Divisions == {480, 96, 0, 59176}

\* Track chunks a header may count, up to one more than a file holds.
MaxChunks == 2

TrackChunks == {TrackChunk(g, b) : g \in {MTrk, BadMTrk}, b \in ChunkBodies}

ChunkLists ==
    {<<>>} \cup {<<c>> : c \in TrackChunks}
           \cup {<<c, d>> : c \in {TrackChunk(MTrk, b) : b \in ChunkBodies},
                            d \in TrackChunks}
           \cup {<<c, d>> : c \in {TrackChunk(BadMTrk, PairBody)},
                            d \in {TrackChunk(MTrk, PairBody)}}

RECURSIVE Flatten2(_)
Flatten2(chunks) ==
    IF chunks = <<>> THEN <<>> ELSE Head(chunks) \o Flatten2(Tail(chunks))

\* A file: a header, its chunks, and the cut last bytes of a file that ends
\* early.
MidiFiles ==
    {HeaderChunk(MThd, n, d) \o Flatten2(cs) :
         n \in 0..(MaxChunks + 1), d \in Divisions, cs \in ChunkLists}
        \cup {HeaderChunk(BadMThd, Len(cs), 480) \o Flatten2(cs) : cs \in ChunkLists}
        \cup {SubSeq(HeaderChunk(MThd, 1, 480) \o TrackChunk(MTrk, b), 1,
                     Len(HeaderChunk(MThd, 1, 480) \o TrackChunk(MTrk, b)) - cut) :
                  b \in ChunkBodies, cut \in 1..3}
        \cup {<<>>, <<77, 84>>, MThd}

\* Byte strings readVarInt is tried on: quantities of one to four bytes, with
\* and without a last byte, and two longer than a quantity can be.
QuantityBytes == {0, 1, 127, 128, 129, 255}

MaxOffset == 2

QuantityInputs ==
    UNION {[1..n -> QuantityBytes] : n \in 1..3}
        \cup {<<129, 128, 128, 0>>, <<255, 255, 255, 127>>, <<255, 255, 255, 255>>,
              <<255, 255, 255, 255, 127>>, <<143, 255, 255, 255, 127>>}

InitMidi ==
    /\ pc = "file"
    /\ bytes \in MidiFiles \cup QuantityInputs
    /\ fileImport = NoImport
    /\ decoded = NoQuantity
    /\ endBeat = 0
    /\ synthNote = NoSynthNote
    /\ raw = NoProject
    /\ rawNow = NoProject
    /\ blk = NoBlock
    /\ rowsArg = NumberArg
    /\ midi = NoMidi
    /\ norm1 = NoResult
    /\ norm2 = NoResult
    /\ ens1 = NoEnsured
    /\ ens2 = NoEnsured
    /\ imported = NoProject
    /\ sched = NoSchedule
    /\ passes = <<>>
    /\ EditorIdle
    /\ EngineIdle

\* importMidiFile(file)
ImportMidiFile ==
    /\ pc = "file"
    /\ fileImport' = importMidiFile(bytes, FirstCall)
    /\ pc' = "read"
    /\ UNCHANGED <<raw, rawNow, norm1, norm2, blk, rowsArg, ens1, ens2, midi,
                   imported, sched, passes, bytes, decoded, endBeat, synthNote,
                   editorVars, engineVars>>

\* readVarInt(data, offset)
ReadVarInt ==
    /\ pc = "file"
    /\ \E offset \in 0..MaxOffset :
          decoded' = [offset |-> offset,
                      value |-> readVarInt(bytes, offset).value,
                      next |-> readVarInt(bytes, offset).next]
    /\ pc' = "decoded"
    /\ UNCHANGED <<raw, rawNow, norm1, norm2, blk, rowsArg, ens1, ens2, midi,
                   imported, sched, passes, bytes, fileImport, endBeat, synthNote,
                   editorVars, engineVars>>

NextMidi == ImportMidiFile \/ ReadVarInt

SpecMidi == InitMidi /\ [][NextMidi]_vars

-----------------------------------------------------------------------------
(* Properties of the MIDI import *)

\* The (up to) four bytes of the file from offset on.
SignatureAt(data, offset) ==
    [i \in 1..Max(0, Min(4, Len(data) - offset)) |-> data[offset + i]]

\* The big-endian number in the bytes offset .. offset + width - 1 of a file
\* that has them all.
RECURSIVE BigEndian(_, _, _)
BigEndian(data, offset, width) ==
    IF width = 0 THEN 0
    ELSE BigEndian(data, offset, width - 1) * 256 + data[offset + width]

\* Where the k-th track chunk starts: behind the header chunk, each chunk
\* being 8 bytes of signature and length and the bytes the length counts.
RECURSIVE ChunkOffset(_, _)
ChunkOffset(data, k) ==
    IF k = 1 THEN 8 + BigEndian(data, 4, 4)
    ELSE ChunkOffset(data, k - 1) + 8
             + (IF ChunkOffset(data, k - 1) + 8 <= Len(data)
                THEN BigEndian(data, ChunkOffset(data, k - 1) + 4, 4) ELSE 0)

\* The number of track chunks the header of a file with a whole header counts.
DeclaredChunks(data) == BigEndian(data, 10, 2)

\* A chunk the header counts that does not begin with "MTrk".
BadChunk(data) ==
    /\ Len(data) >= 14
    /\ \E k \in 1..DeclaredChunks(data) :
          /\ \A j \in 1..(k - 1) : SignatureAt(data, ChunkOffset(data, j)) = MTrk
          /\ SignatureAt(data, ChunkOffset(data, k)) # MTrk

\* C23: when the file does not begin with "MThd", or a track chunk the
\* header counts does not begin with "MTrk" (a file that ends before the last
\* counted chunk included), importMidiFile throws and no project is returned.
C23_BadSignatureFails ==
    (pc = "read" /\ (SignatureAt(bytes, 0) # MThd \/ BadChunk(bytes)))
        => /\ fileImport.threw
           /\ fileImport.error =
                  (IF SignatureAt(bytes, 0) # MThd THEN "Invalid MIDI header"
                   ELSE "Invalid track header")
           /\ fileImport.project = NoProject

\* The first chunk of the file was a whole track with a note in it, the
\* second one is no track chunk, and the import threw.
C23_Witness ==
    /\ pc = "read"
    /\ SignatureAt(bytes, 0) = MThd
    /\ Len(bytes) >= 14
    /\ DeclaredChunks(bytes) = 2
    /\ SignatureAt(bytes, ChunkOffset(bytes, 1)) = MTrk
    /\ SubSeq(bytes, ChunkOffset(bytes, 1) + 9, ChunkOffset(bytes, 2)) = PairBody
    /\ SignatureAt(bytes, ChunkOffset(bytes, 2)) # MTrk
    /\ fileImport.threw
    /\ fileImport.project = NoProject

\* The pairs of an opening and a closing event the parser made, over all
\* chunks of the file.
Pairs(it) == Flatten(it.midi.tracks)

\* The notes and the drum hits of a project, each with where it is.
ImportedNotes(p) ==
    UNION {{[track |-> i, at |-> k, note |-> p.tracks[i].blocks[1].notes[k]] :
                k \in 1..Len(p.tracks[i].blocks[1].notes)} :
               i \in {j \in 1..Len(p.tracks) : p.tracks[j].type = "synth"}}

ImportedHits(p) ==
    UNION {{[track |-> i, at |-> k,
             note |-> p.tracks[i].blocks[1].pattern.events.items[k]] :
                k \in 1..Len(p.tracks[i].blocks[1].pattern.events.items)} :
               i \in {j \in 1..Len(p.tracks) : p.tracks[j].type = "drums"}}

\* What the pair x (opened at x.start with x.velocity, closed at x.end) is
\* to become with ticks ticks per quarter note: beats in 1/1000, velocity in
\* 1/100.
BeatsOf(x, ticks) ==
    [start |-> (x.start * 1000) \div ticks,
     duration |-> Max(50, ((x.end - x.start) * 1000) \div ticks),
     velocity |-> Max(10, Min(100, (200 * x.velocity + 127) \div 254))]

Became(x, ticks, n) ==
    /\ n.start = BeatsOf(x, ticks).start
    /\ n.duration = BeatsOf(x, ticks).duration
    /\ n.velocity = BeatsOf(x, ticks).velocity

\* The file whose one track holds a Note-On of velocity 100 at tick 0 and a
\* Note-On of velocity 0 for the same key at tick 480, with 480 ticks per
\* quarter note.
PairFile == HeaderChunk(MThd, 1, 480) \o TrackChunk(MTrk, PairBody)

\* C24: in a file of p ticks per quarter note, a note opened at tick a with
\* velocity v and closed at tick b becomes exactly one note (one drum hit on
\* channel 9) of start a/p, duration max((b - a)/p, 0.05) and velocity v/127
\* kept within 0.1 .. 1; the file with a = 0, b = 480, p = 480, v = 100
\* gives one note of start 0, duration 1 and velocity 0.79.
C24_NotePairing ==
    (/\ pc = "read" /\ ~fileImport.threw
     /\ Len(bytes) >= 14 /\ BigEndian(bytes, 12, 2) \in 1..32767)
        => LET p == BigEndian(bytes, 12, 2)
               made == fileImport.project
           IN /\ \A x \in SeqToSet(Pairs(fileImport)) :
                    IF x.channel = 9
                    THEN \E h \in ImportedHits(made) :
                            Became(x, p, h.note) /\ h.note.drum = mapDrum(x.note)
                    ELSE \E n \in ImportedNotes(made) :
                            Became(x, p, n.note) /\ n.note.pitch = x.note
              /\ Cardinality(ImportedNotes(made)) + Cardinality(ImportedHits(made))
                     = Len(Pairs(fileImport))
              /\ bytes = PairFile
                     => /\ Len(made.tracks) = 1
                        /\ made.tracks[1].blocks[1].notes =
                               <<[pitch |-> 60, start |-> 0, duration |-> 1000,
                                  velocity |-> 79]>>

\* The file of the example was imported: one note, one beat long.
C24_Witness ==
    /\ pc = "read"
    /\ bytes = PairFile
    /\ Len(Pairs(fileImport)) = 1
    /\ Cardinality(ImportedNotes(fileImport.project)) = 1
    /\ \E n \in ImportedNotes(fileImport.project) : n.note.duration = 1000

\* The one note DanglingBody closes: channel 1, pitch 64, ticks 240 to 480.
DanglingNote ==
    [channel |-> 1, note |-> 64, start |-> 240, end |-> 480, velocity |-> 90]

\* C25: the notes of one key come out of a chunk in the order they were
\* opened, each closing event taking the oldest open one (two notes opened
\* at ticks 0 and 120 and closed at 240 and 480 give 0..240 and 120..480); a
\* closing event with no open note of its key gives no note, and a note left
\* open at the end of its chunk gives none, not even when the next chunk
\* starts with a closing event for its key.
C25_OldestClosedFirst ==
    (pc = "read" /\ ~fileImport.threw)
        => LET tracks == fileImport.midi.tracks
           IN /\ \A t \in 1..Len(tracks) : \A i, j \in 1..Len(tracks[t]) :
                    (/\ i < j
                     /\ tracks[t][i].channel = tracks[t][j].channel
                     /\ tracks[t][i].note = tracks[t][j].note)
                        => /\ tracks[t][i].start <= tracks[t][j].start
                           /\ tracks[t][i].end <= tracks[t][j].end
              /\ \A d \in Divisions :
                    /\ bytes = HeaderChunk(MThd, 1, d) \o TrackChunk(MTrk, OverlapBody)
                          => tracks = << << [channel |-> 0, note |-> 60, start |-> 0,
                                             end |-> 240, velocity |-> 100],
                                            [channel |-> 0, note |-> 60, start |-> 120,
                                             end |-> 480, velocity |-> 50] >> >>
                    /\ bytes = HeaderChunk(MThd, 1, d) \o TrackChunk(MTrk, DanglingBody)
                          => tracks = << <<DanglingNote>> >>
                    /\ bytes = HeaderChunk(MThd, 2, d)
                                   \o TrackChunk(MTrk, DanglingBody)
                                   \o TrackChunk(MTrk, DanglingBody)
                          => tracks = << <<DanglingNote>>, <<DanglingNote>> >>

\* The file with two notes of one key open at once was read, and both came
\* out.
C25_Witness ==
    /\ pc = "read"
    /\ bytes = HeaderChunk(MThd, 1, 480) \o TrackChunk(MTrk, OverlapBody)
    /\ Len(fileImport.midi.tracks[1]) = 2
    /\ fileImport.midi.tracks[1][1].end < fileImport.midi.tracks[1][2].end

-----------------------------------------------------------------------------
(* Properties of readVarInt *)

\* The offsets of the last byte of a quantity that starts at offset: the
\* first byte from there whose 0x80 bit is clear.
LastByteOf(data, offset) ==
    {t \in offset..(Len(data) - 1) :
        /\ data[t + 1] < 128
        /\ \A u \in offset..(t - 1) : data[u + 1] >= 128}

\* The base-128 number whose digits, highest first, are the low seven bits
\* of the bytes first .. last.
RECURSIVE Base128(_, _, _)
Base128(data, first, last) ==
    IF last < first THEN 0
    ELSE Base128(data, first, last - 1) * 128 + (data[last + 1] % 128)

\* C26: where the bytes from offset on hold a quantity (a byte with the 0x80
\* bit clear ends it within four bytes, the longest a quantity of a MIDI file
\* is), readVarInt returns its big-endian
\* base-128 value and the offset behind its last byte; [0x7F] is 127 and
\* [0x81, 0x00] is 128.
C26_ReadVarInt ==
    pc = "decoded"
        => /\ \A t \in LastByteOf(bytes, decoded.offset) :
                 t - decoded.offset < 4
                     => /\ decoded.value = Base128(bytes, decoded.offset, t)
                        /\ decoded.next = t + 1
           /\ (bytes = <<127>> /\ decoded.offset = 0)
                  => decoded.value = 127 /\ decoded.next = 1
           /\ (bytes = <<129, 0>> /\ decoded.offset = 0)
                  => decoded.value = 128 /\ decoded.next = 2

\* A quantity of three bytes was read from offset 1.
C26_Witness ==
    /\ pc = "decoded"
    /\ bytes = <<255, 255, 255, 127>>
    /\ decoded.offset = 1
    /\ decoded.value = 2097151
    /\ decoded.next = 4

-----------------------------------------------------------------------------
(* The length of an imported project *)

\* Where the last of the notes and drum hits of an imported project ends,
\* when each of them ends somewhere.
LatestEnd(p) ==
    LET ends == {n.note.start + n.note.duration :
                     n \in ImportedNotes(p) \cup ImportedHits(p)}
    IN IF ends = {} THEN 0 ELSE CHOOSE e \in ends : \A f \in ends : f <= e

\* C27: in the project of an import every block has the one length L, the
\* latest end of a note or drum hit rounded up to a multiple of 4 beats and
\* at least 4, and every note and drum hit ends by L.
C27_UniformLength ==
    (pc = "read" /\ ~fileImport.threw)
        => LET made == fileImport.project
               all == ImportedNotes(made) \cup ImportedHits(made)
           IN /\ \A n \in all : IsFinite(n.note.start) /\ IsFinite(n.note.duration)
              /\ \A i \in 1..Len(made.tracks) :
                    \A j \in 1..Len(made.tracks[i].blocks) :
                       LET length == made.tracks[i].blocks[j].length
                       IN /\ IsFinite(length)
                          /\ length = Max(4000, CeilDiv(LatestEnd(made), 4000) * 4000)
                          /\ \A n \in all :
                                n.note.start + n.note.duration <= length

-----------------------------------------------------------------------------
(* Blocks on the timeline (SpecBlocks): the resize and move drags of       *)
(* timeline.js, which end in onBlockChange of main.js, and the quantize    *)
(* button.                                                                 *)

\* trimNotesToBlock(block)
trimNotesToBlock(block) ==
    LET inside == SelectSeq(block.notes, LAMBDA note : note.start < block.length)
        cut == [k \in 1..Len(inside) |->
                   IF inside[k].duration > block.length - inside[k].start
                   THEN [inside[k] EXCEPT
                            !.duration = Max(10, block.length - inside[k].start)]
                   ELSE inside[k]]
    IN [block EXCEPT !.notes = SelectSeq(cut, LAMBDA note : note.duration > 0)]

\* onBlockChange(trackId, blockId, changes), the track and the block being
\* found at ti and bi; changes is {startBeat} or {length}.
onBlockChange(p, ti, bi, changes) ==
    LET block == p.tracks[ti].blocks[bi]
        assigned == IF changes.key = "length"
                    THEN [block EXCEPT !.length = changes.value]
                    ELSE [block EXCEPT !.startBeat = changes.value]
    IN [p EXCEPT !.tracks[ti].blocks[bi] =
           IF changes.key = "length" /\ p.tracks[ti].type = "synth"
           THEN trimNotesToBlock(assigned)
           ELSE assigned]

\* Math.round(value / snap) * snap
quantizeValue(value, snap) == RoundDiv(value, snap) * snap

quantizeBlock(track, block, snap) ==
    [block EXCEPT
        !.startBeat = Max(0, quantizeValue(block.startBeat, snap)),
        !.length = Max(snap, quantizeValue(block.length, snap)),
        !.notes = IF track.type = "synth"
                  THEN [k \in 1..Len(block.notes) |->
                           [block.notes[k] EXCEPT
                               !.start = Max(0, quantizeValue(@, snap)),
                               !.duration = Max(snap, quantizeValue(@, snap))]]
                  ELSE @]

quantizeProject(p, snap) ==
    [p EXCEPT !.tracks =
        [i \in 1..Len(p.tracks) |->
            [p.tracks[i] EXCEPT !.blocks =
                [j \in 1..Len(p.tracks[i].blocks) |->
                    quantizeBlock(p.tracks[i], p.tracks[i].blocks[j], snap)]]]]

\* trimNotesToBlock on every block of the synth tracks of q.
TrimSynthTracks(q) ==
    [q EXCEPT !.tracks =
        [i \in 1..Len(q.tracks) |->
            IF q.tracks[i].type # "synth" THEN q.tracks[i]
            ELSE [q.tracks[i] EXCEPT !.blocks =
                     [j \in 1..Len(q.tracks[i].blocks) |->
                         trimNotesToBlock(q.tracks[i].blocks[j])]]]]

\* The quantizeBtn click handler up to commitChange(): quantizeProject, then
\* the trim of the synth tracks.
quantizeClick(p, snap) == TrimSynthTracks(quantizeProject(p, snap))

\* The project an earlier session left in the cache: a synth block with
\* notes at beats 0, 3 and 3.9, and a drum block with hits at beats 0 and 3.
BlocksProject ==
    [name |-> "song", bpm |-> 120, tracks |->
        << [NoTrack EXCEPT
               !.id = 21, !.type = "synth", !.console = "NES",
               !.blocks = << [id |-> 22, startBeat |-> 0, length |-> 4000,
                              notes |-> << [pitch |-> 60, start |-> 0,
                                            duration |-> 1000, velocity |-> 90],
                                           [pitch |-> 64, start |-> 3000,
                                            duration |-> 1000, velocity |-> 90],
                                           [pitch |-> 67, start |-> 3900,
                                            duration |-> 125, velocity |-> 90] >>,
                              pattern |-> EmptyArray] >>],
           [NoTrack EXCEPT
               !.id = 31, !.type = "drums", !.console = "NES",
               !.blocks = << [id |-> 32, startBeat |-> 1000, length |-> 4000,
                              notes |-> <<>>,
                              pattern |-> [EmptyObject EXCEPT
                                  !.events = [t |-> "arr", items |->
                                      << [id |-> 33, drum |-> "kick", start |-> 0,
                                          duration |-> 250, velocity |-> 90],
                                         [id |-> 34, drum |-> "snare", start |-> 3000,
                                          duration |-> 250, velocity |-> 90] >>]]] >>] >>]

\* The lengths and the start beats a drag ends on: multiples of the snap.
DragBeats == {Snap, 2000, 3000, 6000}

InitBlocks ==
    /\ \E started \in {StartHistory(OrDefault(loadProjectFromCache(
                              [has |-> TRUE, parsed |-> BlocksProject])))} :
          /\ heap = Collect(started.heap, started.stack, 1)
          /\ stack = started.stack
          /\ index = started.index
          /\ stored = started.stored
    /\ project = 1
    /\ nextId = 2 * CallIdStride
    /\ activeTrackId = 0
    /\ activeBlockId = 0
    /\ pendingConfirm = 0
    /\ opCount = 0
    /\ pointer = "up"
    /\ lastOp = NoOp
    /\ ModelIdle
    /\ EngineIdle

\* The pointer is let go of a block's resize handle.
BlockResize ==
    /\ pointer = "up" /\ CanAct
    /\ \E ti \in 1..Len(Live.tracks) :
          \E bi \in 1..Len(Live.tracks[ti].blocks), length \in DragBeats :
             CommitChange(onBlockChange(Live, ti, bi,
                                        [key |-> "length", value |-> length]),
                          TRUE, TRUE,
                          [op |-> "resize", track |-> Live.tracks[ti].id,
                           prev |-> NoTrack])
    /\ opCount' = opCount + 1
    /\ UNCHANGED <<nextId, pointer, pendingConfirm, modelVars, engineVars>>

\* The pointer is let go of a block that was dragged along its track.
BlockMove ==
    /\ pointer = "up" /\ CanAct
    /\ \E ti \in 1..Len(Live.tracks) :
          \E bi \in 1..Len(Live.tracks[ti].blocks), startBeat \in {0, 2000} :
             CommitChange(onBlockChange(Live, ti, bi,
                                        [key |-> "startBeat", value |-> startBeat]),
                          TRUE, TRUE,
                          [op |-> "move", track |-> Live.tracks[ti].id,
                           prev |-> NoTrack])
    /\ opCount' = opCount + 1
    /\ UNCHANGED <<nextId, pointer, pendingConfirm, modelVars, engineVars>>

\* quantizeBtn click
QuantizeClick ==
    /\ pointer = "up" /\ CanAct
    /\ \E snap \in {Snap, 1000} :
          CommitChange(quantizeClick(Live, snap), TRUE, TRUE,
                       [op |-> "quantize", track |-> 0, prev |-> NoTrack])
    /\ opCount' = opCount + 1
    /\ UNCHANGED <<nextId, pointer, pendingConfirm, modelVars, engineVars>>

NextBlocks ==
    BlockResize \/ BlockMove \/ QuantizeClick \/ OpenEditor \/ CloseEditor

SpecBlocks == InitBlocks /\ [][NextBlocks]_vars

-----------------------------------------------------------------------------
(* Properties of the blocks on the timeline *)

\* The blocks the last operation resized or quantized, as positions.
AffectedBlocks ==
    {<<i, j>> \in (1..Len(Live.tracks)) \X (1..2) :
        /\ j <= Len(Live.tracks[i].blocks)
        /\ \/ lastOp.op = "quantize"
           \/ lastOp.op = "resize" /\ Live.tracks[i].id = lastOp.track}

InsideBlock(item, block) ==
    /\ item.start < block.length
    /\ item.start + item.duration <= block.length

NotesInside(block) ==
    \A k \in 1..Len(block.notes) : InsideBlock(block.notes[k], block)

HitsInside(block) ==
    \A k \in 1..Len(block.pattern.events.items) :
        InsideBlock(block.pattern.events.items[k], block)

\* C28: after a block was resized, and after the quantize button, every
\* note and every drum hit of the blocks concerned starts inside the block
\* and ends by its end.
C28_ContentInsideBlock ==
    \A at \in AffectedBlocks :
        /\ NotesInside(Live.tracks[at[1]].blocks[at[2]])
        /\ Live.tracks[at[1]].type = "drums"
               => HitsInside(Live.tracks[at[1]].blocks[at[2]])

-----------------------------------------------------------------------------
(* Properties of normalizeProject *)

\* C29: the bpm of the project normalizeProject returns is the input's bpm
\* kept within 40 .. 240 when that is a finite number (9999 gives 240, -5
\* gives 40), and 120 when it is missing or not finite.
C29_BpmClamped ==
    (pc = "normalized" /\ ~norm1.threw)
        => /\ norm1.project.bpm =
                  (IF raw.bpm \in {NaN, Infinity, 0 - Infinity} THEN 120
                   ELSE IF raw.bpm < 40 THEN 40
                   ELSE IF raw.bpm > 240 THEN 240
                   ELSE raw.bpm)
           /\ raw.bpm = 9999 => norm1.project.bpm = 240
           /\ raw.bpm = 0 - 5 => norm1.project.bpm = 40

\* A bpm above the range was normalized.
C29_Witness ==
    /\ pc = "normalized"
    /\ raw.bpm = 9999
    /\ norm1.project.bpm = 240

\* C30: a project normalizeProject returns has 5 to MAX_TRACKS tracks (the
\* input's first MAX_TRACKS, padded to 5), each of type synth or drums, with
\* a volume in 0 .. 1, a pan in -1 .. 1, an octave in -3 .. 3 and boolean
\* mute and solo, and each block starts at beat 0 or later and has a length
\* above 0.
C30_NormalizedRanges ==
    (pc = "normalized" /\ ~norm1.threw)
        => LET tracks == norm1.project.tracks
           IN /\ Len(tracks) >= 5 /\ Len(tracks) <= 16
              /\ Len(tracks) = IF Len(raw.tracks) < 5 THEN 5
                               ELSE IF Len(raw.tracks) > 16 THEN 16
                               ELSE Len(raw.tracks)
              /\ \A i \in 1..Len(tracks) :
                    /\ tracks[i].type \in {"synth", "drums"}
                    /\ tracks[i].volume >= 0 /\ tracks[i].volume <= 100
                    /\ tracks[i].pan >= 0 - 100 /\ tracks[i].pan <= 100
                    /\ tracks[i].octave >= 0 - 3 /\ tracks[i].octave <= 3
                    /\ tracks[i].mute \in BOOLEAN
                    /\ tracks[i].solo \in BOOLEAN
                    /\ \A j \in 1..Len(tracks[i].blocks) :
                          /\ tracks[i].blocks[j].startBeat >= 0
                          /\ tracks[i].blocks[j].length > 0
                          /\ IsFinite(tracks[i].blocks[j].length)

\* A track with a volume above 1 and a block that starts before beat 0 was
\* normalized.
C30_Witness ==
    /\ pc = "normalized"
    /\ ~norm1.threw
    /\ Len(raw.tracks) = 1
    /\ raw.tracks[1].volume > 100
    /\ Len(raw.tracks[1].blocks) = 1
    /\ raw.tracks[1].blocks[1].startBeat < 0
    /\ norm1.project.tracks[1].blocks[1].startBeat = 0

\* The raw track normalizeTrack reads at 1-based position i: the element of
\* the input's tracks, or a track with every field missing for a padded one.
RawTrackAt(rawProject, i) ==
    IF i <= Len(rawProject.tracks) THEN rawProject.tracks[i] ELSE NoTrack

\* The console/waveform pair of a raw track is not one of CONSOLE_WAVES.
UnknownCombination(safe) ==
    \/ safe.console \notin DOMAIN CONSOLE_WAVES
    \/ safe.waveform \notin SeqToSet(CONSOLE_WAVES[safe.console])

\* C31: a track of the input whose console is unknown, whose waveform is not
\* one of its console's, or that is missing, comes out of normalizeProject
\* with the console and the waveform of the template of its index.
C31_TemplateDefaults ==
    (pc = "normalized" /\ ~norm1.threw)
        => \A i \in 1..Len(norm1.project.tracks) :
              UnknownCombination(RawTrackAt(raw, i))
                  => LET template == createTrack(0, i - 1, "")
                     IN /\ norm1.project.tracks[i].console = template.console
                        /\ norm1.project.tracks[i].waveform = template.waveform

-----------------------------------------------------------------------------
(* getProjectEndBeat on its own (SpecEndBeat): the projects are what        *)
(* normalizeProject returns for a synth track and a drum track with up to   *)
(* two blocks and up to one block, placed at and after beat 0.              *)

EndBeatBlocks ==
    {[NoBlock EXCEPT !.startBeat = s, !.length = l] :
         s \in {0, 1500, 6000}, l \in {250, 4000}}

EndBeatBlockLists(n) ==
    UNION {[1..k -> EndBeatBlocks] : k \in 0..n}

EndBeatInputs ==
    {[name |-> "song", bpm |-> 120, tracks |->
         << [NoTrack EXCEPT !.type = "synth", !.blocks = synthBlocks],
            [NoTrack EXCEPT !.type = "drums", !.blocks = drumBlocks] >>] :
         synthBlocks \in EndBeatBlockLists(2), drumBlocks \in EndBeatBlockLists(1)}

InitEndBeat ==
    /\ pc = "song"
    /\ \E r \in EndBeatInputs : raw = normalizeProject(r, FirstCall).project
    /\ endBeat = 0
    /\ synthNote = NoSynthNote
    /\ rawNow = NoProject
    /\ blk = NoBlock
    /\ rowsArg = NumberArg
    /\ midi = NoMidi
    /\ norm1 = NoResult
    /\ norm2 = NoResult
    /\ ens1 = NoEnsured
    /\ ens2 = NoEnsured
    /\ imported = NoProject
    /\ sched = NoSchedule
    /\ passes = <<>>
    /\ MidiIdle
    /\ EditorIdle
    /\ EngineIdle

\* getProjectEndBeat(project)
GetProjectEndBeat ==
    /\ pc = "song"
    /\ endBeat' = getProjectEndBeat(raw)
    /\ pc' = "measured"
    /\ UNCHANGED <<raw, rawNow, norm1, norm2, blk, rowsArg, ens1, ens2, midi,
                   imported, sched, passes, bytes, fileImport, decoded,
                   synthNote, editorVars, engineVars>>

NextEndBeat == GetProjectEndBeat

SpecEndBeat == InitEndBeat /\ [][NextEndBeat]_vars

\* The beats at which the blocks of a project end.
BlockEnds(p) ==
    UNION {{b.startBeat + b.length : b \in SeqToSet(track.blocks)} :
               track \in SeqToSet(p.tracks)}

\* C32: getProjectEndBeat(project) is the latest block end of the project
\* and 4 when no block ends later than beat 4, so it is at least 4 and the
\* loop duration playProject computes from it is above 0.
C32_EndBeat ==
    pc = "measured"
        => /\ endBeat >= 4000
           /\ \A e \in BlockEnds(raw) : e <= endBeat
           /\ endBeat \in BlockEnds(raw) \cup {4000}
           /\ BlockEnds(raw) = {} => endBeat = 4000
           /\ BeatsToTime(endBeat, raw.bpm) > 0

\* The end beat of a project whose latest block is the drum track's and ends
\* after the synth track's two blocks was taken.
C32_Witness ==
    /\ pc = "measured"
    /\ Len(raw.tracks[1].blocks) = 2
    /\ Len(raw.tracks[2].blocks) = 1
    /\ raw.tracks[2].blocks[1].startBeat = 6000
    /\ raw.tracks[2].blocks[1].length = 4000
    /\ raw.tracks[1].blocks[2].startBeat = 1500
    /\ endBeat = 10000

-----------------------------------------------------------------------------
(* Properties of the track outputs of a transport session *)

\* The iterations scheduled so far on the bus of the running session.
SessionIterations ==
    {n \in 1..Len(played) : played[n].kind = "play" /\ played[n].bus = engine.playBus}

\* C33: whatever the number of loop iterations scheduled since playProject,
\* the output the map holds for a track id is the one the first
\* scheduleProject call of the session created on the session's bus, every
\* track has exactly that one, and once stopped the map holds none.
C33_OneOutputPerTrack ==
    /\ \A id \in DOMAIN engine.trackGains :
          /\ engine.trackGains[id].bus = engine.playBus
          /\ engine.trackGains[id].made = engine.playStartTime
          /\ \A n \in SessionIterations : played[n].start >= engine.trackGains[id].made
    /\ engine.isPlaying
          => DOMAIN engine.trackGains = {song.tracks[i].id : i \in 1..Len(song.tracks)}
    /\ ~engine.isPlaying => engine.trackGains = NoGains

\* A second iteration of a session was scheduled, after a session that was
\* stopped.
C33_Witness ==
    /\ engine.isPlaying
    /\ engine.playBus > 1
    /\ DOMAIN engine.trackGains # {}
    /\ \E n \in SessionIterations : played[n].start > engine.playStartTime

-----------------------------------------------------------------------------
(* The voice factory of audioEngine.js (SpecVoice).  A voice is told by    *)
(* the nodes it is made of: osc is the node handed to the note's gain,     *)
(* oscStarts tells whether that node has a start method (an oscillator or  *)
(* a buffer source has, a gain, filter, shaper or delay has not), extra is *)
(* the voice's extra array, stops is the set of nodes voice.stop(when)     *)
(* calls stop on, and made is the set of generators the recipe created.    *)
(* Frequencies are in 1/100 Hz.                                            *)

\* DEFAULT_ADSR.release
Release == 80 * 1000

\* The + 0.1 of voice.stop(startTime + duration + DEFAULT_ADSR.release + 0.1)
StopTail == 100 * 1000

\* 2 ^ (k / 12) for k = 0 .. 11, in 1/10000.
SemitoneRatio ==
    <<10000, 10595, 11225, 11892, 12599, 13348, 14142, 14983, 15874, 16818,
      17818, 18877>>

\* 440 * Math.pow(2, (midiNote - 69) / 12)
midiToFrequency(midiNote) ==
    IF ~IsFinite(midiNote) THEN NaN
    ELSE LET octave == (midiNote - 69) \div 12
             inOctave == (44000 * SemitoneRatio[((midiNote - 69) % 12) + 1]) \div 10000
         IN IF octave >= 0 THEN inOctave * 2 ^ octave
            ELSE inOctave \div 2 ^ (0 - octave)

\* { osc, stop: (when) => osc.stop(when) } of one oscillator or buffer source
OneSource(node, type, frequency) ==
    [osc |-> node, oscStarts |-> TRUE, extra |-> <<>>, stops |-> {node},
     made |-> {node}, type |-> type, frequency |-> frequency, stopWhen |-> "when"]

\* An oscillator on a pulse wave; the periodic wave is taken to be accepted
\* (the source falls back to a square type when it is not).
PulseVoice(waveform, frequency) ==
    OneSource("osc",
              IF waveform \in {"pulse12", "pulse25", "pulse50"} THEN waveform
              ELSE "pulse25",
              frequency)

\* A recipe whose osc is an effect node fed by generators held in extra.
Through(effect, extra, stops, type, frequency) ==
    [osc |-> effect, oscStarts |-> FALSE, extra |-> extra, stops |-> stops,
     made |-> SeqToSet(extra), type |-> type, frequency |-> frequency,
     stopWhen |-> "when"]

createOscillatorForTrack(track, frequency) ==
    LET waveform == IF track.waveform # "" THEN track.waveform ELSE "square"
        console == track.console
    IN IF console = "NES" THEN PulseVoice(waveform, frequency)
       ELSE IF console \in {"Famicom", "GameBoy"} /\ waveform = "noise"
       THEN OneSource("source", "noise", 0)
       ELSE IF console = "Famicom" /\ waveform = "triangle"
       THEN OneSource("osc", "triangle", frequency)
       ELSE IF console = "GameBoy" /\ waveform = "wave"
       THEN OneSource("source", "gb_wave", frequency)
       ELSE IF console \in {"Famicom", "GameBoy"} THEN PulseVoice(waveform, frequency)
       ELSE IF console = "Basics" /\ waveform \in {"noise-pink", "noise-brown"}
       THEN Through("filter", <<"source">>, {"source"}, waveform, 0)
       ELSE IF console = "Basics" /\ waveform = "noise"
       THEN OneSource("source", "noise", 0)
       ELSE IF console = "Basics" /\ waveform = "supersaw"
       THEN Through("mix", <<"osc1", "osc2", "osc3", "osc4", "osc5">>,
                    {"osc1", "osc2", "osc3", "osc4", "osc5"}, "sawtooth", frequency)
       ELSE IF console = "Basics" /\ waveform = "pwm"
       THEN Through("mix", <<"oscA", "oscB", "lfo">>, {"oscA", "oscB", "lfo"},
                    "square", frequency)
       ELSE IF console = "Complex" /\ waveform = "sub-sine"
       THEN OneSource("osc", "sine", frequency \div 2)
       ELSE IF console = "Complex" /\ waveform = "bitcrush"
       THEN Through("crusher", <<"osc">>, {"osc"}, "sawtooth", frequency)
       ELSE IF console = "Complex" /\ waveform \in {"ring-mod", "am"}
       THEN Through("carrierGain", <<"carrier", "modulator">>,
                    {"carrier", "modulator"}, "sine", frequency)
       ELSE IF console = "Complex" /\ waveform = "fold"
       THEN Through("fold", <<"osc">>, {"osc"}, "triangle", frequency)
       ELSE IF console = "Complex" /\ waveform = "drive"
       THEN Through("drive", <<"osc">>, {"osc"}, "sawtooth", frequency)
       ELSE IF console = "Complex" /\ waveform = "hard-sync"
       THEN [osc |-> "slave", oscStarts |-> TRUE, extra |-> <<"master", "slave">>,
             stops |-> {"master", "slave"}, made |-> {"master", "slave"},
             type |-> "sawtooth", frequency |-> frequency, stopWhen |-> "when"]
       ELSE IF console = "Complex" /\ waveform \in {"phaser", "chorus"}
       THEN Through(IF waveform = "phaser" THEN "stage2" ELSE "delay",
                    <<"osc", "lfo">>, {"osc"}, "sawtooth", frequency)
       ELSE IF console = "TurboGrafx16"
       THEN OneSource("source",
                      IF waveform = "wave2" THEN "tg16_wave2"
                      ELSE IF waveform = "wave3" THEN "tg16_wave3" ELSE "tg16_wave1",
                      frequency)
       ELSE IF console \in {"SNES", "Atari"} /\ waveform = "noise"
       THEN OneSource("source", "noise", 0)
       ELSE IF console = "SNES"
       THEN OneSource("source",
                      IF waveform = "wave2" THEN "snes_wave2" ELSE "snes_wave1",
                      frequency)
       ELSE IF console = "Sega" \/ waveform = "fm"
       THEN [osc |-> "carrier", oscStarts |-> TRUE, extra |-> <<"modulator">>,
             stops |-> {"carrier", "modulator"}, made |-> {"carrier", "modulator"},
             type |-> "sine", frequency |-> frequency, stopWhen |-> "when"]
       ELSE OneSource("osc",
                      IF waveform = "pulse" THEN "square"
                      ELSE IF waveform = "saw" THEN "sawtooth" ELSE waveform,
                      frequency)

\* The voice of the catch branch: { osc, stop: () => osc.stop() }, whose stop
\* takes no time and so stops the oscillator at once.
FallbackVoice(frequency) ==
    [OneSource("osc", "square", frequency) EXCEPT !.stopWhen = "at once"]

\* The voice of a catch branch that hands the time on to osc.stop.
FallbackVoiceTimed(frequency) == OneSource("osc", "square", frequency)

\* The start calls of scheduleSynthNote in their order: voice.osc.start when
\* the node has one, then every node of voice.extra.
StartCalls(voice) ==
    (IF voice.oscStarts THEN <<voice.osc>> ELSE <<>>) \o voice.extra

\* start on a node that was started raises InvalidStateError: the calls up
\* to and with the first repeated one are made, and nothing after it.
CallsMade(calls) ==
    LET repeated == {k \in 1..Len(calls) : \E q \in 1..(k - 1) : calls[q] = calls[k]}
    IN IF repeated = {} THEN calls
       ELSE SubSeq(calls, 1, CHOOSE k \in repeated : \A q \in repeated : k <= q)

NoVoice ==
    [osc |-> "", oscStarts |-> FALSE, extra |-> <<>>, stops |-> {}, made |-> {},
     type |-> "", frequency |-> NaN, stopWhen |-> "when"]

\* What the call did once it has its voice.
Voiced(voice, started, startTime, duration) ==
    [voice |-> voice,
     threw |-> started # StartCalls(voice),
     started |-> started,
     startAt |-> startTime,
     stopped |-> IF started # StartCalls(voice) THEN {} ELSE voice.stops,
     stopAt |-> IF voice.stopWhen = "when"
                THEN startTime + duration + Release + StopTail
                ELSE 0]

\* scheduleSynthNote(context, track, trackChain, note, startTime, duration);
\* fails tells that createOscillatorForTrack raises.
scheduleSynthNote(track, note, startTime, duration, fails) ==
    LET midiNote == IF IsFinite(note.pitch)
                THEN note.pitch + (IF IsFinite(track.octave) THEN track.octave ELSE 0) * 12
                ELSE NaN
        frequency == midiToFrequency(midiNote)
        velocity == IF IsFinite(note.velocity) THEN note.velocity ELSE 90
    IN IF \/ ~IsFinite(frequency)
          \/ ~IsFinite(startTime) \/ ~IsFinite(duration) \/ duration <= 0
          \/ velocity <= 0
       THEN [voice |-> NoVoice, threw |-> FALSE, started |-> <<>>, startAt |-> startTime,
             stopped |-> {}, stopAt |-> 0]
       ELSE \* the voice is named once: it is read four times below
            LET made(voice) == Voiced(voice, CallsMade(StartCalls(voice)),
                                      startTime, duration)
            IN made(IF fails THEN FallbackVoice(frequency)
                    ELSE createOscillatorForTrack(track, frequency))

(* Inputs: a synth track on every console with every waveform of           *)
(* CONSOLE_WAVES, notes at A4 and C4 and one without velocity, and a       *)
(* duration that is none.                                                  *)

VoiceTracks ==
    {[NoTrack EXCEPT !.id = 21, !.type = "synth", !.console = c, !.waveform = wf,
                     !.volume = 80, !.pan = 0, !.octave = o] :
         c \in DOMAIN CONSOLE_WAVES, wf \in {"pulse25", "noise", "triangle", "wave",
              "noise-pink", "noise-brown", "supersaw", "pwm", "sine", "sub-sine",
              "bitcrush", "ring-mod", "am", "fold", "drive", "hard-sync", "phaser",
              "chorus", "wave2", "wave3", "square", "fm", "saw", "pulse"},
         o \in {0}}

VoiceNotes ==
    {[pitch |-> 69, start |-> 0, duration |-> 1000, velocity |-> 90],
     [pitch |-> 60, start |-> 0, duration |-> 1000, velocity |-> 90],
     [pitch |-> 69, start |-> 0, duration |-> 1000, velocity |-> 0]}

InitVoice ==
    /\ pc = "note"
    /\ \E track \in VoiceTracks, note \in VoiceNotes, duration \in {0, 500 * 1000},
          fails \in BOOLEAN :
          /\ track.waveform \in SeqToSet(CONSOLE_WAVES[track.console])
          /\ synthNote = [called |-> FALSE, track |-> track, note |-> note,
                          startTime |-> StartDelay, duration |-> duration,
                          fails |-> fails]
    /\ endBeat = 0
    /\ raw = NoProject
    /\ rawNow = NoProject
    /\ blk = NoBlock
    /\ rowsArg = NumberArg
    /\ midi = NoMidi
    /\ norm1 = NoResult
    /\ norm2 = NoResult
    /\ ens1 = NoEnsured
    /\ ens2 = NoEnsured
    /\ imported = NoProject
    /\ sched = NoSchedule
    /\ passes = <<>>
    /\ MidiIdle
    /\ EditorIdle
    /\ EngineIdle

\* scheduleSynthNote(context, track, trackOutput.input, note, noteStart, duration)
ScheduleSynthNote ==
    /\ pc = "note"
    /\ \E did \in {scheduleSynthNote(synthNote.track, synthNote.note,
                                     synthNote.startTime, synthNote.duration,
                                     synthNote.fails)} :
          synthNote' = [called |-> TRUE, track |-> synthNote.track,
                        note |-> synthNote.note, startTime |-> synthNote.startTime,
                        duration |-> synthNote.duration, fails |-> synthNote.fails,
                        did |-> did]
    /\ pc' = "scheduled"
    /\ UNCHANGED <<raw, rawNow, norm1, norm2, blk, rowsArg, ens1, ens2, midi,
                   imported, sched, passes, bytes, fileImport, decoded, endBeat,
                   editorVars, engineVars>>

NextVoice == ScheduleSynthNote

SpecVoice == InitVoice /\ [][NextVoice]_vars

\* The call got past its guards and made a voice.
VoiceMade == pc = "scheduled" /\ synthNote.called /\ synthNote.did.voice # NoVoice

\* The time a regular voice is stopped at.
NoteStopTime == synthNote.startTime + synthNote.duration + Release + StopTail

\* How many of the start calls were made on a generator.
StartsOf(generator) ==
    Cardinality({k \in 1..Len(synthNote.did.started) :
                     synthNote.did.started[k] = generator})

\* C34: for every (console, waveform) recipe of the voice factory, every
\* generator the voice creates is started exactly once at the note's start
\* time and stopped at the note's stop time by scheduleSynthNote: none is
\* started twice and none is left running after the note.
C34_GeneratorsStartedAndStopped ==
    (VoiceMade /\ ~synthNote.fails) =>
        /\ ~synthNote.did.threw
        /\ synthNote.did.startAt = synthNote.startTime
        /\ synthNote.did.stopAt = NoteStopTime
        /\ \A generator \in synthNote.did.voice.made :
              /\ StartsOf(generator) = 1
              /\ generator \in synthNote.did.stopped

\* C35: when constructing the voice fails, scheduleSynthNote does not raise
\* and does not drop the note: it schedules a square-wave voice at the
\* requested frequency, started at the note's start time and stopped when a
\* regular voice is (start + duration + release + 0.1 s).
C35_FallbackVoice ==
    (VoiceMade /\ synthNote.fails) =>
        /\ ~synthNote.did.threw
        /\ synthNote.did.voice.type = "square"
        /\ synthNote.did.voice.frequency =
               midiToFrequency(synthNote.note.pitch + synthNote.track.octave * 12)
        /\ synthNote.did.started = <<"osc">>
        /\ synthNote.did.startAt = synthNote.startTime
        /\ synthNote.did.stopped = {"osc"}
        /\ synthNote.did.stopAt = NoteStopTime

\* The operations of the editor session that end in history.push(project)
\* and write nothing to the live project after it (the console change
\* pushes too, and then renders the drum editor).
PushingOps ==
    {"addTrack", "waveform", "addBlock", "toggle", "pointerUp", "deleteTrack",
     "tempo"}

\* C36: a history snapshot is a faithful deep copy: after an operation that
\* pushed the live project, the snapshot that became current equals the
\* project as it was committed, the events, rows and volumes of its drum
\* patterns included.
C36_SnapshotFaithful ==
    lastOp.op \in PushingOps => stored[index + 1] = Live

\* What a playback call has to leave alone of a running preview.
PreviewKept ==
    /\ engine'.previewBus = engine.previewBus
    /\ engine'.previewLoop = engine.previewLoop
    /\ engine'.previewStartTime = engine.previewStartTime
    /\ engine'.previewDuration = engine.previewDuration
    /\ engine'.previewTimer = engine.previewTimer
    /\ engine.previewTimer # 0 => timers'[engine.previewTimer] = timers[engine.previewTimer]

\* C37: stop() and playProject() (which calls stop()) leave a running
\* preview untouched: its bus, loop flag, start time, duration and pending
\* re-schedule timer are as they were, so a looping preview keeps
\* re-scheduling after the playback is stopped or restarted.
C37_PlaybackLeavesPreview ==
    [][(Stop \/ PlayProject) => PreviewKept]_vars

\* The loop re-schedule timers that are pending.
PendingLoopTimers ==
    {id \in 1..Len(timers) : timers[id].kind = "loop" /\ timers[id].state = "pending"}

\* C38: in every state of the engine between operations: isPlaying is true
\* exactly when playBus is set; a loop re-schedule timer is pending only
\* while isPlaying and loop are both true; at most one such timer is pending;
\* and the track gain map is empty whenever isPlaying is false.
C38_EngineInvariant ==
    /\ engine.isPlaying <=> engine.playBus # 0
    /\ PendingLoopTimers # {} => (engine.isPlaying /\ engine.loop)
    /\ Cardinality(PendingLoopTimers) <= 1
    /\ PendingLoopTimers \subseteq {engine.loopTimer}
    /\ ~engine.isPlaying => engine.trackGains = NoGains

\* A looping playback with its timer pending, started after an earlier
\* loop timer was cleared or has fired, and with its track outputs made.
C38_Witness ==
    /\ engine.isPlaying /\ engine.loop
    /\ PendingLoopTimers = {engine.loopTimer}
    /\ \E id \in 1..Len(timers) :
          timers[id].kind = "loop" /\ timers[id].state # "pending"
    /\ engine.trackGains # NoGains

-----------------------------------------------------------------------------
(* HistoryManager as an undo stack *)

\* The editor session is running.
EditorRuns == pointer # "none"

\* A step of an operation that ran history.push(project): the stack is
\* another one, and not by the reset of a load.
PushStep ==
    /\ stack' # stack
    /\ lastOp'.op \in PushingOps \cup {"console"}

\* What every clone made by the history must not overwrite.
HeldNow == SeqToSet(stack) \cup {project}

\* undo() followed by redo(), from the history as it is; the state undo()
\* returned is the live project by then.
UndoneNow == HistoryUndo(heap, History, HeldNow)

RedoneAfterUndo ==
    HistoryRedo(UndoneNow.heap,
                [stack |-> stack, index |-> UndoneNow.index, stored |-> stored],
                SeqToSet(stack) \cup {UndoneNow.state})

\* C39: HistoryManager is a linear undo stack.  A push made after k undos
\* discards the k undone snapshots: right after a push redo() returns null
\* and undo() returns the snapshot that was current before the push.
\* undo() at the oldest snapshot and redo() at the newest return null and
\* leave stack and index as they were.  undo() followed by redo() returns
\* the snapshot that was current before the undo.
C39_LinearUndoStack ==
    /\ [][PushStep =>
             /\ HistoryRedo(heap', History', HeldNow').state = 0
             /\ Len(stack') <= index + 2
             /\ LET undone == HistoryUndo(heap', History', HeldNow')
                IN undone.state # 0 =>
                      /\ undone.heap[undone.state] = stored[index + 1]
                      /\ undone.index = index' - 1]_vars
    /\ [](EditorRuns =>
             /\ index = 0 =>
                   /\ UndoneNow.state = 0
                   /\ UndoneNow.index = index /\ UndoneNow.heap = heap
             /\ index = Len(stack) - 1 =>
                   LET redone == HistoryRedo(heap, History, HeldNow)
                   IN redone.state = 0 /\ redone.index = index /\ redone.heap = heap
             /\ index > 0 =>
                   /\ RedoneAfterUndo.state # 0
                   /\ RedoneAfterUndo.index = index
                   /\ RedoneAfterUndo.heap[RedoneAfterUndo.state] = stored[index + 1])

\* The session started with two snapshots, the second was undone, and a
\* push then took its place: the first is still there, the second is gone
\* and the pushed one is current.
C39_Witness ==
    /\ EditorRuns
    /\ lastOp.op \in PushingOps
    /\ Len(stack) = 2 /\ index = 1
    /\ \E started \in StartStates :
          /\ Len(started.stored) = 2
          /\ stored[1] = started.stored[1]
          /\ stored[2] # started.stored[2]

\* C40: whatever was pushed, undone, redone and reset, the stack holds
\* between 1 and limit snapshots and the index points into it; a push that
\* would exceed the limit drops exactly the oldest snapshot and makes the
\* newest one current.
C40_StackWithinLimit ==
    /\ [](EditorRuns =>
             /\ Len(stack) >= 1 /\ Len(stack) <= HistoryLimit
             /\ index >= 0 /\ index <= Len(stack) - 1
             /\ Len(stored) = Len(stack))
    /\ [][(PushStep /\ index + 2 > HistoryLimit) =>
             /\ Len(stack') = HistoryLimit
             /\ index' = Len(stack') - 1
             /\ SubSeq(stack', 1, HistoryLimit - 1) = SubSeq(stack, 2, HistoryLimit)
             /\ SubSeq(stored', 1, HistoryLimit - 1) = SubSeq(stored, 2, HistoryLimit)
             /\ stack'[HistoryLimit] \notin SeqToSet(stack)]_vars

\* The stack is full and its oldest snapshot is no longer the one the
\* session started with: a push went over the limit.
C40_Witness ==
    /\ EditorRuns
    /\ Len(stack) = HistoryLimit /\ index = HistoryLimit - 1
    /\ opCount = MaxOps
    /\ lastOp.op \in PushingOps
    /\ \A started \in StartStates : stored[1] # started.stored[1]

=============================================================================
